---------------------------- MODULE Spec2Model ----------------------------
(***************************************************************************)
(* A model of the seo-generator server: the session-isolated generation    *)
(* pipeline (routes/index.js), the Asset Composer (utils/seoGenerator.js)  *)
(* and the Image Rasterizer (utils/iconGenerator.js).                      *)
(*                                                                         *)
(* Text is modelled by TLA+ strings, with the JavaScript string methods    *)
(* the code calls written out as operators over them, so every generated   *)
(* artifact of the model is the text the code would produce.               *)
(***************************************************************************)
EXTENDS Integers, Sequences, FiniteSets, TLC

(***************************************************************************)
(* Bounds of the model.                                                    *)
(***************************************************************************)
\* Lines a submitted siteLinks textarea holds at most.
MaxLines == 2
\* Concurrent POST /generate requests.
NumReqs == 2
\* Session directories present when the cleanup timer fires.
MaxSessions == 2
\* The last hour the clock reaches.
MaxHour == 4
\* The most credits the signed-in user starts with.
MaxCredits == 2

(***************************************************************************)
(* JavaScript string and array methods used by the code.                   *)
(***************************************************************************)
\* The i-th character of s (1-based), as a one-character string.
CharAt(s, i) == SubSeq(s, i, i)

\* The white space String.prototype.trim strips (the part of it the model's
\* inputs can hold).
WhiteSpace == {" ", "\t", "\n", "\r"}

\* Positions of s that hold a character other than white space.
InkPositions(s) == {i \in 1..Len(s) : CharAt(s, i) \notin WhiteSpace}

Min(S) == CHOOSE x \in S : \A y \in S : x <= y
Max(S) == CHOOSE x \in S : \A y \in S : x >= y

\* String.prototype.trim
Trim(s) ==
  LET ink == InkPositions(s)
  IN  IF ink = {} THEN "" ELSE SubSeq(s, Min(ink), Max(ink))

\* String.prototype.replace(/c/g, r) for a one-character pattern c.
RECURSIVE ReplaceAll(_, _, _)
ReplaceAll(s, c, r) ==
  IF s = "" THEN ""
  ELSE (IF Head(s) = c THEN r ELSE Head(s)) \o ReplaceAll(Tail(s), c, r)

\* String.prototype.replace(/\/+$/, ''): the trailing run of slashes removed.
RECURSIVE StripTrailingSlashes(_)
StripTrailingSlashes(s) ==
  IF s # "" /\ CharAt(s, Len(s)) = "/"
  THEN StripTrailingSlashes(SubSeq(s, 1, Len(s) - 1))
  ELSE s

\* String.prototype.endsWith / startsWith / includes
EndsWith(s, t) == Len(t) <= Len(s) /\ SubSeq(s, Len(s) - Len(t) + 1, Len(s)) = t
StartsWith(s, t) == Len(t) <= Len(s) /\ SubSeq(s, 1, Len(t)) = t
StrIncludes(s, t) ==
  \E i \in 1..(Len(s) - Len(t) + 1) :
    CharAt(s, i) = CharAt(t, 1) /\ SubSeq(s, i, i + Len(t) - 1) = t

\* String.prototype.split(c) for a one-character separator c: the pieces
\* between the separators, in order (one more piece than separators).
SepPositions(s, c) == {i \in 1..Len(s) : CharAt(s, i) = c}
RECURSIVE Split(_, _)
Split(s, c) ==
  LET seps == SepPositions(s, c)
  IN  IF seps = {} THEN << s >>
      ELSE << SubSeq(s, 1, Min(seps) - 1) >>
           \o Split(SubSeq(s, Min(seps) + 1, Len(s)), c)

\* Array.prototype.join(sep)
RECURSIVE Join(_, _)
Join(lines, sep) ==
  IF lines = << >> THEN ""
  ELSE IF Len(lines) = 1 THEN lines[1]
  ELSE lines[1] \o sep \o Join(Tail(lines), sep)

\* Array.prototype.includes
Includes(arr, x) == \E i \in 1..Len(arr) : arr[i] = x

\* Array.prototype.map over a sequence
Map(arr, F(_)) == [i \in 1..Len(arr) |-> F(arr[i])]


(***************************************************************************)
(* new URL(link): the WHATWG parser's verdict on an absolute URL, for the  *)
(* strings the model submits.  A URL needs a scheme (a letter, then        *)
(* letters, digits, "+", "-" or "."), then ":"; a special scheme (http,    *)
(* https, ftp, ws, wss) also needs a host that is not empty and holds no   *)
(* forbidden host character.                                               *)
(***************************************************************************)
Letters ==
  {"a","b","c","d","e","f","g","h","i","j","k","l","m","n","o","p","q","r",
   "s","t","u","v","w","x","y","z",
   "A","B","C","D","E","F","G","H","I","J","K","L","M","N","O","P","Q","R",
   "S","T","U","V","W","X","Y","Z"}
Digits == {"0","1","2","3","4","5","6","7","8","9"}
SchemeChars == Letters \cup Digits \cup {"+", "-", "."}
SpecialSchemes == {"http", "https", "ftp", "ws", "wss"}
ForbiddenHostChars == {" ", "<", ">", "\t", "\n", "\r", "^", "|", "%", "[", "]"}

\* The position of the first ":" of s, or 0.
SchemeEnd(s) ==
  IF SepPositions(s, ":") = {} THEN 0 ELSE Min(SepPositions(s, ":"))

\* The host of a special-scheme URL whose text after "scheme:" is rest: the
\* slashes that lead it skipped, then the text up to the next "/", "?" or "#".
RECURSIVE SkipSlashes(_)
SkipSlashes(rest) ==
  IF rest # "" /\ Head(rest) \in {"/", "\\"} THEN SkipSlashes(Tail(rest)) ELSE rest
HostOf(rest) ==
  LET r == SkipSlashes(rest)
      stops == {i \in 1..Len(r) : CharAt(r, i) \in {"/", "\\", "?", "#"}}
  IN  IF stops = {} THEN r ELSE SubSeq(r, 1, Min(stops) - 1)

IsValidURL(link) ==
  LET e == SchemeEnd(link)
      scheme == SubSeq(link, 1, e - 1)
      host == HostOf(SubSeq(link, e + 1, Len(link)))
  IN  /\ e > 1
      /\ CharAt(link, 1) \in Letters
      /\ \A i \in 1..(e - 1) : CharAt(link, i) \in SchemeChars
      /\ scheme \in SpecialSchemes =>
           /\ host # ""
           /\ \A i \in 1..Len(host) : CharAt(host, i) \notin ForbiddenHostChars

(***************************************************************************)
(* Optional values.  A JavaScript value that may be null or undefined is a *)
(* sequence of length 0 (absent) or 1 (the value).                         *)
(***************************************************************************)
Null == << >>
Some(v) == << v >>
IsNull(m) == m = << >>
Val(m) == m[1]

(***************************************************************************)
(* The server's clock: new Date().  A reading is a day and a tick of that  *)
(* day; toISOString() prints both, and split('T')[0] keeps the date.  The  *)
(* readings one call of generateSEO takes are modelled as one instant.     *)
(***************************************************************************)
Clock == { [day |-> 1, tick |-> 1], [day |-> 1, tick |-> 2], [day |-> 2, tick |-> 1] }
ISODate(now) == "2025-01-0" \o ToString(now.day)
toISOString(now) == ISODate(now) \o "T00:00:0" \o ToString(now.tick) \o ".000Z"

(***************************************************************************)
(* utils/seoGenerator.js: the Asset Composer.                              *)
(***************************************************************************)
\* Variant: only the opening angle bracket is escaped.
sanitizeText_NoGt(text) ==
  ReplaceAll(Trim(text), "<", "&lt;")

\* sanitizeText(text)
sanitizeText(text) ==
  ReplaceAll(ReplaceAll(Trim(text), "<", "&lt;"), ">", "&gt;")

\* Variant: the trailing slashes are kept.
canonicalUrl_NoStrip(websiteUrl) == Trim(websiteUrl)

\* websiteUrl.trim().replace(/\/+$/, '')
canonicalUrl(websiteUrl) == StripTrailingSlashes(Trim(websiteUrl))

\* Variant: no fallback to the site URL when no links are given.
parseSiteLinks_NoFallback(siteLinks, websiteUrl) ==
  IF IsNull(siteLinks) \/ Val(siteLinks) = "" \/ Trim(Val(siteLinks)) = ""
  THEN << >>
  ELSE
    LET trimmed == Map(Split(Trim(Val(siteLinks)), "\n"), Trim)
        nonEmpty == SelectSeq(trimmed, LAMBDA link : Len(link) > 0)
        links == SelectSeq(nonEmpty, IsValidURL)
    IN  IF ~Includes(links, websiteUrl) /\ ~Includes(links, websiteUrl \o "/")
        THEN << websiteUrl >> \o links
        ELSE IF Len(links) > 0 THEN links ELSE << websiteUrl >>

\* Variant: the lines are not checked to be URLs.
parseSiteLinks_NoUrlCheck(siteLinks, websiteUrl) ==
  IF IsNull(siteLinks) \/ Val(siteLinks) = "" \/ Trim(Val(siteLinks)) = ""
  THEN << websiteUrl >>
  ELSE
    LET trimmed == Map(Split(Trim(Val(siteLinks)), "\n"), Trim)
        links == SelectSeq(trimmed, LAMBDA link : Len(link) > 0)
    IN  IF ~Includes(links, websiteUrl) /\ ~Includes(links, websiteUrl \o "/")
        THEN << websiteUrl >> \o links
        ELSE IF Len(links) > 0 THEN links ELSE << websiteUrl >>

\* parseSiteLinks(siteLinks, websiteUrl); siteLinks is optional.
parseSiteLinks(siteLinks, websiteUrl) ==
  IF IsNull(siteLinks) \/ Val(siteLinks) = "" \/ Trim(Val(siteLinks)) = ""
  THEN << websiteUrl >>
  ELSE
    LET trimmed == Map(Split(Trim(Val(siteLinks)), "\n"), Trim)
        nonEmpty == SelectSeq(trimmed, LAMBDA link : Len(link) > 0)
        links == SelectSeq(nonEmpty, IsValidURL)
    IN  IF ~Includes(links, websiteUrl) /\ ~Includes(links, websiteUrl \o "/")
        THEN << websiteUrl >> \o links
        ELSE IF Len(links) > 0 THEN links ELSE << websiteUrl >>

\* Variant: the internal path is preferred.
iconHref_Internal(icon) == icon.href

\* The <link> tag generateMetaTags pushes for one icon, if any.
iconHref(icon) == IF icon.userHref # "" THEN icon.userHref ELSE icon.href
iconLinkTag(icon) ==
  IF icon.rel = "icon"
  THEN << "<link rel=\"icon\" type=\"" \o icon.type \o "\" sizes=\"" \o icon.sizes
          \o "\" href=\"" \o iconHref(icon) \o "\">" >>
  ELSE IF icon.rel = "apple-touch-icon"
  THEN << "<link rel=\"apple-touch-icon\" sizes=\"" \o icon.sizes
          \o "\" href=\"" \o iconHref(icon) \o "\">" >>
  ELSE << >>

RECURSIVE iconLinkTags(_)
iconLinkTags(icons) ==
  IF icons = << >> THEN << >>
  ELSE iconLinkTag(Head(icons)) \o iconLinkTags(Tail(icons))

\* Variant: a default favicon link when no image was supplied.
generateMetaTags_DefaultFavicon(title, description, websiteUrl, iconData) ==
  << "<meta charset=\"UTF-8\">",
     "<meta name=\"viewport\" content=\"width=device-width, initial-scale=1.0\">",
     "<title>" \o title \o "</title>",
     "<meta name=\"description\" content=\"" \o description \o "\">",
     "<meta name=\"robots\" content=\"index, follow\">",
     "<meta name=\"author\" content=\"" \o title \o "\">",
     "<meta name=\"generator\" content=\"SEO Generator v1.0\">",
     "<link rel=\"canonical\" href=\"" \o websiteUrl \o "/\">" >>
  \o (IF ~IsNull(iconData) THEN iconLinkTags(Val(iconData).icons)
      ELSE << "<link rel=\"icon\" href=\"/favicon.ico\">" >>)

\* generateMetaTags(title, description, websiteUrl, iconData)
generateMetaTags(title, description, websiteUrl, iconData) ==
  << "<meta charset=\"UTF-8\">",
     "<meta name=\"viewport\" content=\"width=device-width, initial-scale=1.0\">",
     "<title>" \o title \o "</title>",
     "<meta name=\"description\" content=\"" \o description \o "\">",
     "<meta name=\"robots\" content=\"index, follow\">",
     "<meta name=\"author\" content=\"" \o title \o "\">",
     "<meta name=\"generator\" content=\"SEO Generator v1.0\">",
     "<link rel=\"canonical\" href=\"" \o websiteUrl \o "/\">" >>
  \o (IF ~IsNull(iconData) THEN iconLinkTags(Val(iconData).icons) ELSE << >>)

\* Variant: the internal path is preferred.
imageHref_Internal(ogImage) == ogImage.href

\* iconData.ogImage.userHref || iconData.ogImage.href
imageHref(ogImage) == IF ogImage.userHref # "" THEN ogImage.userHref ELSE ogImage.href

\* generateOpenGraphTags(title, description, websiteUrl, iconData)
generateOpenGraphTags(title, description, websiteUrl, iconData) ==
  << "<meta property=\"og:title\" content=\"" \o title \o "\">",
     "<meta property=\"og:description\" content=\"" \o description \o "\">",
     "<meta property=\"og:type\" content=\"website\">",
     "<meta property=\"og:url\" content=\"" \o websiteUrl \o "/\">",
     "<meta property=\"og:site_name\" content=\"" \o title \o "\">",
     "<meta property=\"og:locale\" content=\"en_US\">" >>
  \o (IF ~IsNull(iconData) /\ ~IsNull(Val(iconData).ogImage)
      THEN LET og == Val(Val(iconData).ogImage) IN
        << "<meta property=\"og:image\" content=\"" \o websiteUrl \o imageHref(og) \o "\">",
           "<meta property=\"og:image:width\" content=\"" \o ToString(og.width) \o "\">",
           "<meta property=\"og:image:height\" content=\"" \o ToString(og.height) \o "\">",
           "<meta property=\"og:image:type\" content=\"" \o og.type \o "\">" >>
      ELSE << >>)

\* generateTwitterTags(title, description, websiteUrl, iconData)
generateTwitterTags(title, description, websiteUrl, iconData) ==
  << "<meta name=\"twitter:card\" content=\"summary_large_image\">",
     "<meta name=\"twitter:title\" content=\"" \o title \o "\">",
     "<meta name=\"twitter:description\" content=\"" \o description \o "\">",
     "<meta name=\"twitter:site\" content=\"@yourhandle\">",
     "<meta name=\"twitter:creator\" content=\"@yourhandle\">" >>
  \o (IF ~IsNull(iconData) /\ ~IsNull(Val(iconData).ogImage)
      THEN << "<meta name=\"twitter:image\" content=\"" \o websiteUrl
              \o imageHref(Val(Val(iconData).ogImage)) \o "\">" >>
      ELSE << >>)

\* JSON.stringify of a string: quoted, with the quote, the backslash and the
\* control characters escaped.
JsonString(s) ==
  "\"" \o ReplaceAll(ReplaceAll(ReplaceAll(ReplaceAll(ReplaceAll(s,
            "\\", "\\\\"), "\"", "\\\""), "\n", "\\n"), "\r", "\\r"), "\t", "\\t")
  \o "\""

\* generateStructuredData(title, description, websiteUrl)
generateStructuredData(title, description, websiteUrl) ==
  "<script type=\"application/ld+json\">\n"
  \o "{\n"
  \o "  \"@context\": \"https://schema.org\",\n"
  \o "  \"@type\": \"WebSite\",\n"
  \o "  \"name\": " \o JsonString(title) \o ",\n"
  \o "  \"description\": " \o JsonString(description) \o ",\n"
  \o "  \"url\": " \o JsonString(websiteUrl \o "/") \o ",\n"
  \o "  \"potentialAction\": {\n"
  \o "    \"@type\": \"SearchAction\",\n"
  \o "    \"target\": {\n"
  \o "      \"@type\": \"EntryPoint\",\n"
  \o "      \"urlTemplate\": " \o JsonString(websiteUrl \o "/search?q={search_term_string}") \o "\n"
  \o "    },\n"
  \o "    \"query-input\": \"required name=search_term_string\"\n"
  \o "  }\n"
  \o "}"
  \o "\n</script>"

\* tag => `    ${tag}`
Indent(tag) == "    " \o tag

\* generateHTMLHead(metaTags, openGraphTags, twitterTags, structuredData, iconData)
generateHTMLHead(metaTags, openGraphTags, twitterTags, structuredData, iconData) ==
  Join(
    << "<!DOCTYPE html>",
       "<html lang=\"en\">",
       "<head>",
       "    <!-- Basic Meta Tags -->" >>
    \o Map(metaTags, Indent)
    \o << "",
          "    <!-- Open Graph Meta Tags -->" >>
    \o Map(openGraphTags, Indent)
    \o << "",
          "    <!-- Twitter Card Meta Tags -->" >>
    \o Map(twitterTags, Indent)
    \o << "",
          "    <!-- Structured Data -->",
          "    " \o structuredData,
          "",
          "    <!-- Additional SEO Meta Tags -->",
          "    <meta name=\"theme-color\" content=\"#ffffff\">",
          "    <meta name=\"msapplication-TileColor\" content=\"#ffffff\">",
          "",
          "    <!-- Preconnect for Performance -->",
          "    <link rel=\"preconnect\" href=\"https://fonts.googleapis.com\">",
          "    <link rel=\"preconnect\" href=\"https://fonts.gstatic.com\" crossorigin>",
          "</head>",
          "<body>",
          "    <!-- Your content goes here -->",
          "</body>",
          "</html>" >>,
    "\n")

\* generateRobotsTxt(websiteUrl)
generateRobotsTxt(websiteUrl) ==
  "User-agent: *\n"
  \o "Allow: /\n"
  \o "\n"
  \o "# Sitemap\n"
  \o "Sitemap: " \o websiteUrl \o "/sitemap.xml\n"
  \o "\n"
  \o "# Block common spam bots\n"
  \o "User-agent: AhrefsBot\n"
  \o "Disallow: /\n"
  \o "\n"
  \o "User-agent: MJ12bot\n"
  \o "Disallow: /\n"
  \o "\n"
  \o "User-agent: DotBot\n"
  \o "Disallow: /"

\* The sitemap's entry for one site link; today is the date of the call.
isHomepage(url, websiteUrl) == url = websiteUrl \/ url = websiteUrl \o "/"
urlEntry(url, websiteUrl, today) ==
  "    <url>\n"
  \o "        <loc>" \o (IF EndsWith(url, "/") THEN url ELSE url \o "/") \o "</loc>\n"
  \o "        <lastmod>" \o today \o "</lastmod>\n"
  \o "        <changefreq>"
  \o (IF isHomepage(url, websiteUrl) THEN "daily" ELSE "weekly") \o "</changefreq>\n"
  \o "        <priority>"
  \o (IF isHomepage(url, websiteUrl) THEN "1.0" ELSE "0.8") \o "</priority>\n"
  \o "    </url>"

\* generateSitemapTemplate(websiteUrl, siteLinks), called when the clock reads now.
generateSitemapTemplate(websiteUrl, siteLinks, now) ==
  "<?xml version=\"1.0\" encoding=\"UTF-8\"?>\n"
  \o "<urlset xmlns=\"http://www.sitemaps.org/schemas/sitemap/0.9\">\n"
  \o Join([i \in 1..Len(siteLinks) |-> urlEntry(siteLinks[i], websiteUrl, ISODate(now))], "\n")
  \o "\n"
  \o "</urlset>"


(***************************************************************************)
(* Node's path module, on the paths the code builds.                       *)
(***************************************************************************)
\* path.join(a, b)
pathJoin(a, b) == a \o "/" \o b

\* path.basename(p)
basename(p) ==
  IF SepPositions(p, "/") = {} THEN p
  ELSE SubSeq(p, Max(SepPositions(p, "/")) + 1, Len(p))

(***************************************************************************)
(* utils/iconGenerator.js: the Image Rasterizer.                           *)
(***************************************************************************)
\* this.iconSizes
iconSizes ==
  << [size |-> 16, name |-> "favicon-16x16.png", rel |-> "icon", type |-> "image/png"],
     [size |-> 32, name |-> "favicon-32x32.png", rel |-> "icon", type |-> "image/png"],
     [size |-> 48, name |-> "favicon-48x48.png", rel |-> "icon", type |-> "image/png"],
     [size |-> 64, name |-> "favicon-64x64.png", rel |-> "icon", type |-> "image/png"],
     [size |-> 96, name |-> "favicon-96x96.png", rel |-> "icon", type |-> "image/png"],
     [size |-> 128, name |-> "favicon-128x128.png", rel |-> "icon", type |-> "image/png"],
     [size |-> 180, name |-> "apple-touch-icon.png", rel |-> "apple-touch-icon", type |-> "image/png"],
     [size |-> 192, name |-> "android-chrome-192x192.png", rel |-> "icon", type |-> "image/png"],
     [size |-> 512, name |-> "android-chrome-512x512.png", rel |-> "icon", type |-> "image/png"],
     [size |-> 1200, name |-> "og-image.png", rel |-> "og-image", type |-> "image/png"] >>

\* Variant: one directory for every session.
serverPath_Global(sessionDir, name) == "/generated/icons/" \o name

\* The internal path of an icon file: served by the generator while the
\* session lives.
serverPath(sessionDir, name) ==
  IF sessionDir # ""
  THEN "/generated/sessions/" \o basename(sessionDir) \o "/icons/" \o name
  ELSE "/generated/icons/" \o name

\* The external path of an icon file: the one the generated HTML uses.
userPath(name) == IF name = "favicon.ico" THEN "/favicon.ico" ELSE "/icons/" \o name

\* The descriptor pushed to generatedIcons for one rendered size.
iconDescriptor(iconSpec, sessionDir) ==
  [name |-> iconSpec.name,
   href |-> serverPath(sessionDir, iconSpec.name),
   userHref |-> userPath(iconSpec.name),
   sizes |-> ToString(iconSpec.size) \o "x" \o ToString(iconSpec.size),
   type |-> iconSpec.type,
   rel |-> iconSpec.rel]

\* ogImageData, set when the social-preview image rendered.
ogImageDescriptor(iconSpec, sessionDir) ==
  [href |-> serverPath(sessionDir, iconSpec.name),
   userHref |-> "/icons/" \o iconSpec.name,
   width |-> 1200,
   height |-> 630,
   type |-> "image/png"]

\* JSON.stringify(manifest, null, 2) of generateWebManifest
webManifestText ==
  "{\n"
  \o "  \"name\": \"Your Website\",\n"
  \o "  \"short_name\": \"YourSite\",\n"
  \o "  \"description\": \"Your website description\",\n"
  \o "  \"start_url\": \"/\",\n"
  \o "  \"display\": \"standalone\",\n"
  \o "  \"theme_color\": \"#ffffff\",\n"
  \o "  \"background_color\": \"#ffffff\",\n"
  \o "  \"orientation\": \"portrait-primary\",\n"
  \o "  \"icons\": [\n"
  \o "    {\n"
  \o "      \"src\": \"/icons/android-chrome-192x192.png\",\n"
  \o "      \"sizes\": \"192x192\",\n"
  \o "      \"type\": \"image/png\",\n"
  \o "      \"purpose\": \"maskable any\"\n"
  \o "    },\n"
  \o "    {\n"
  \o "      \"src\": \"/icons/android-chrome-512x512.png\",\n"
  \o "      \"sizes\": \"512x512\",\n"
  \o "      \"type\": \"image/png\",\n"
  \o "      \"purpose\": \"maskable any\"\n"
  \o "    }\n"
  \o "  ]\n"
  \o "}"

\* The text of generateBrowserConfig
browserConfigText ==
  "<?xml version=\"1.0\" encoding=\"utf-8\"?>\n"
  \o "<browserconfig>\n"
  \o "    <msapplication>\n"
  \o "        <tile>\n"
  \o "            <square150x150logo src=\"/icons/android-chrome-192x192.png\"/>\n"
  \o "            <square310x310logo src=\"/icons/android-chrome-512x512.png\"/>\n"
  \o "            <TileColor>#ffffff</TileColor>\n"
  \o "        </tile>\n"
  \o "    </msapplication>\n"
  \o "</browserconfig>"

\* Variant: the social-preview image is described apart from the icon list.
generateIcons_OgImageApart(metadata, originalFilename, sessionDir, failed) ==
  LET rendered == SelectSeq(iconSizes, LAMBDA iconSpec : iconSpec.name \notin failed)
      ogSpecs == SelectSeq(rendered, LAMBDA iconSpec : iconSpec.rel = "og-image")
      listed == SelectSeq(rendered, LAMBDA iconSpec : iconSpec.rel # "og-image")
  IN  [icons |-> [i \in 1..Len(listed) |-> iconDescriptor(listed[i], sessionDir)],
       ogImage |-> IF ogSpecs = << >> THEN Null
                   ELSE Some(ogImageDescriptor(ogSpecs[Len(ogSpecs)], sessionDir)),
       webManifest |-> [path |-> pathJoin(sessionDir, "site.webmanifest"),
                        content |-> webManifestText],
       browserConfig |-> [path |-> pathJoin(sessionDir, "browserconfig.xml"),
                          content |-> browserConfigText],
       sessionDir |-> sessionDir,
       sourceInfo |-> [originalFilename |-> originalFilename,
                       width |-> metadata.width,
                       height |-> metadata.height,
                       format |-> metadata.format]]

\* Variant: the first size that fails to render ends the loop.
generateIcons_StopAtFailure(metadata, originalFilename, sessionDir, failed) ==
  LET firstFailed == {i \in 1..Len(iconSizes) : iconSizes[i].name \in failed}
      rendered == IF firstFailed = {} THEN iconSizes
                  ELSE SubSeq(iconSizes, 1, Min(firstFailed) - 1)
      ogSpecs == SelectSeq(rendered, LAMBDA iconSpec : iconSpec.rel = "og-image")
  IN  [icons |-> [i \in 1..Len(rendered) |-> iconDescriptor(rendered[i], sessionDir)],
       ogImage |-> IF ogSpecs = << >> THEN Null
                   ELSE Some(ogImageDescriptor(ogSpecs[Len(ogSpecs)], sessionDir)),
       webManifest |-> [path |-> pathJoin(sessionDir, "site.webmanifest"),
                        content |-> webManifestText],
       browserConfig |-> [path |-> pathJoin(sessionDir, "browserconfig.xml"),
                          content |-> browserConfigText],
       sessionDir |-> sessionDir,
       sourceInfo |-> [originalFilename |-> originalFilename,
                       width |-> metadata.width,
                       height |-> metadata.height,
                       format |-> metadata.format]]

\* generateIcons(sourcePath, originalFilename, sessionDir), for a source image
\* that decodes to metadata; failed holds the names of the sizes whose
\* rendering throws (each is logged and skipped).
generateIcons(metadata, originalFilename, sessionDir, failed) ==
  LET rendered == SelectSeq(iconSizes, LAMBDA iconSpec : iconSpec.name \notin failed)
      ogSpecs == SelectSeq(rendered, LAMBDA iconSpec : iconSpec.rel = "og-image")
  IN  [icons |-> [i \in 1..Len(rendered) |-> iconDescriptor(rendered[i], sessionDir)],
       ogImage |-> IF ogSpecs = << >> THEN Null
                   ELSE Some(ogImageDescriptor(ogSpecs[Len(ogSpecs)], sessionDir)),
       webManifest |-> [path |-> pathJoin(sessionDir, "site.webmanifest"),
                        content |-> webManifestText],
       browserConfig |-> [path |-> pathJoin(sessionDir, "browserconfig.xml"),
                          content |-> browserConfigText],
       sessionDir |-> sessionDir,
       sourceInfo |-> [originalFilename |-> originalFilename,
                       width |-> metadata.width,
                       height |-> metadata.height,
                       format |-> metadata.format]]

\* The files one generateIcons call leaves on disk, as a function from path
\* to content: every size that rendered, favicon.ico, the manifest and the
\* browser configuration.  An image file's content is named by the source it
\* was rasterized from.
iconFiles(sourcePath, sessionDir, failed) ==
  LET iconsDir == IF sessionDir # "" THEN pathJoin(sessionDir, "icons") ELSE "generated/icons"
      names == ({iconSizes[i].name : i \in 1..Len(iconSizes)} \cup {"favicon.ico"}) \ failed
      outDir == IF sessionDir # "" THEN sessionDir ELSE "generated"
  IN  [p \in {pathJoin(iconsDir, n) : n \in names} |->
         "raster of " \o sourcePath \o " as " \o basename(p)]
      @@ (pathJoin(outDir, "site.webmanifest") :> webManifestText)
      @@ (pathJoin(outDir, "browserconfig.xml") :> browserConfigText)

(***************************************************************************)
(* routes/index.js: session identifiers and directories.                   *)
(***************************************************************************)
\* crypto.randomUUID().replace(/-/g, '').substring(0, 16)
generateSessionId(uuid) == SubSeq(ReplaceAll(uuid, "-", ""), 1, 16)

\* path.join('generated', 'sessions', sessionId)
sessionDirOf(sessionId) == pathJoin(pathJoin("generated", "sessions"), sessionId)

(***************************************************************************)
(* generateSEO: the text artifacts and the bundle returned to the caller.  *)
(* now is the clock's reading during the call.                             *)
(***************************************************************************)
\* The files saveGeneratedFiles writes, in order, with their contents.
artifactFiles(data) ==
  << [filename |-> "complete.html", content |-> data.htmlHead],
     [filename |-> "robots.txt", content |-> data.robotsTxt],
     [filename |-> "sitemap.xml", content |-> data.sitemapXml],
     [filename |-> "meta-tags.html", content |-> Join(data.metaTags, "\n")],
     [filename |-> "opengraph-tags.html", content |-> Join(data.openGraphTags, "\n")],
     [filename |-> "twitter-tags.html", content |-> Join(data.twitterTags, "\n")],
     [filename |-> "structured-data.json", content |-> data.structuredData] >>

generateSEO(options, now) ==
  LET cleanTitle == sanitizeText(options.title)
      cleanDescription == sanitizeText(options.description)
      cleanWebsiteUrl == canonicalUrl(options.websiteUrl)
      parsedSiteLinks == parseSiteLinks(options.siteLinks, cleanWebsiteUrl)
      metaTags == generateMetaTags(cleanTitle, cleanDescription, cleanWebsiteUrl, options.iconData)
      openGraphTags == generateOpenGraphTags(cleanTitle, cleanDescription, cleanWebsiteUrl, options.iconData)
      twitterTags == generateTwitterTags(cleanTitle, cleanDescription, cleanWebsiteUrl, options.iconData)
      structuredData == generateStructuredData(cleanTitle, cleanDescription, cleanWebsiteUrl)
      htmlHead == generateHTMLHead(metaTags, openGraphTags, twitterTags, structuredData, options.iconData)
      robotsTxt == generateRobotsTxt(cleanWebsiteUrl)
      sitemapXml == generateSitemapTemplate(cleanWebsiteUrl, parsedSiteLinks, now)
  IN  [title |-> cleanTitle,
       description |-> cleanDescription,
       websiteUrl |-> cleanWebsiteUrl,
       siteLinks |-> parsedSiteLinks,
       metaTags |-> metaTags,
       openGraphTags |-> openGraphTags,
       twitterTags |-> twitterTags,
       structuredData |-> structuredData,
       htmlHead |-> htmlHead,
       robotsTxt |-> robotsTxt,
       sitemapXml |-> sitemapXml,
       iconData |-> options.iconData,
       sessionId |-> options.sessionId,
       sessionDir |-> options.sessionDir,
       timestamp |-> toISOString(now)]

\* saveGeneratedFiles(data, sessionDir): the files written under sessionDir,
\* as a function from path to content; a write that throws (its filename is
\* in unwritable) is logged and skipped.
saveGeneratedFiles(data, sessionDir, unwritable) ==
  LET files == SelectSeq(artifactFiles(data), LAMBDA file : file.filename \notin unwritable)
      outputDir == IF sessionDir # "" THEN sessionDir ELSE "generated"
      paths == {pathJoin(outputDir, files[i].filename) : i \in 1..Len(files)}
  IN  [p \in paths |->
         files[CHOOSE i \in 1..Len(files) : pathJoin(outputDir, files[i].filename) = p].content]


(***************************************************************************)
(* The requests the model submits to POST /generate.                       *)
(***************************************************************************)
Titles == {"My Site <script>", "  <b>Tom & Ann</b> \n"}
Descriptions == {"A site.", " 1 < 2 > 0 \"quoted\"\t", ""}
WebsiteUrls == {"https://example.com/", "  https://example.com//\n", "https://example.com/shop"}

\* The lines a siteLinks textarea is filled from: the text of the line as
\* typed, and the URL it stands for (none for a blank or malformed line).
LineOptions ==
  { [text |-> " https://example.com ", url |-> Some("https://example.com")],
    [text |-> "https://example.com/\r", url |-> Some("https://example.com/")],
    [text |-> "https://example.com/about", url |-> Some("https://example.com/about")],
    [text |-> "not a url", url |-> Null],
    [text |-> "   ", url |-> Null] }

RECURSIVE SeqsUpTo(_, _)
SeqsUpTo(S, n) ==
  IF n = 0 THEN {<< >>}
  ELSE SeqsUpTo(S, n - 1)
       \cup {Append(q, x) : q \in {s \in SeqsUpTo(S, n - 1) : Len(s) = n - 1}, x \in S}

\* The uploaded images: one that decodes and one that does not.
GoodImage ==
  [path |-> "uploads/icon-1700000000000-1.png", filename |-> "icon-1700000000000-1.png",
   decodes |-> TRUE, metadata |-> [width |-> 640, height |-> 480, format |-> "png"]]
BadImage ==
  [path |-> "uploads/icon-1700000000000-2.png", filename |-> "icon-1700000000000-2.png",
   decodes |-> FALSE, metadata |-> [width |-> 0, height |-> 0, format |-> ""]]

\* A submitted form: req.body and req.file.  lines are the lines typed into
\* the siteLinks textarea, when the field was sent at all.
Submission(t, d, u, ls, f) ==
  [siteTitle |-> t, siteDescription |-> d, websiteUrl |-> u,
   lines |-> ls,
   siteLinks |-> IF IsNull(ls) THEN Null
                 ELSE Some(Join(Map(Val(ls), LAMBDA l : l.text), "\n")),
   file |-> f]

\* The submissions of the model: every title, description, site URL and
\* upload without site links, and every site URL and list of site links
\* under one title and description.
Submissions ==
  { Submission(t, d, u, Null, f) :
      t \in Titles, d \in Descriptions, u \in WebsiteUrls,
      f \in {Null, Some(GoodImage), Some(BadImage)} }
  \cup
  { Submission("My Site <script>", "A site.", u, Some(ls), Null) :
      u \in WebsiteUrls, ls \in SeqsUpTo(LineOptions, MaxLines) }

\* The submissions made twice over.
LinksTwice ==
  << CHOOSE l \in LineOptions : l.text = "https://example.com/about",
     CHOOSE l \in LineOptions : l.text = " https://example.com " >>
SubmissionsTwice ==
  { Submission("My Site <script>", "A site.", "https://example.com/", Null, Null),
    Submission("My Site <script>", "A site.", "https://example.com/", Some(LinksTwice), Null),
    Submission("My Site <script>", "A site.", "https://example.com/", Null, Some(GoodImage)),
    Submission("My Site <script>", "A site.", "https://example.com/", Null, Some(BadImage)),
    Submission("My Site <script>", "", "https://example.com/", Null, Null) }

\* The values crypto.randomUUID() returns to the modelled requests.
RandomUUIDs ==
  { "123e4567-e89b-42d3-a456-426614174000",
    "123e4567-e89b-42d3-b456-556642440000",
    "9f1c2a70-5b3d-4e8a-9c1f-0a1b2c3d4e5f" }

\* The files generateIcons fails to write in one call: sizes, favicon.ico,
\* the manifest.
RenderFailures ==
  { {}, {"og-image.png"}, {"favicon-16x16.png", "apple-touch-icon.png", "favicon.ico"},
    {"site.webmanifest"} }

\* generateWebManifest and generateBrowserConfig await fs.writeFile outside
\* any try of their own: a failed write reaches the catch of generateIcons,
\* which throws 'Failed to generate icons'.
Throws(failed) == failed \cap {"site.webmanifest", "browserconfig.xml"} # {}

\* The artifact files whose write fails in one saveGeneratedFiles call.
WriteFailures == { {}, {"sitemap.xml"} }

(***************************************************************************)
(* State.                                                                  *)
(***************************************************************************)
Runs == {1, 2}

VARIABLES
  input,      \* the form submitted to POST /generate
  outcome,    \* per call of the handler: "pending", "rejected", "rendered", "error"
  result,     \* per call: the seoData rendered to the caller, if any
  disk,       \* the files under generated/: path -> content
  uploads,    \* the uploaded source files present under uploads/
  pc,         \* per request in flight on the server: where its handler stands
  req,        \* per request: the form it carries (req.body and req.file)
  issued,     \* the values crypto.randomUUID() has returned
  session,    \* per request: its sessionId, once generated
  dirs,       \* the directories that exist
  iconDataOf, \* per request: the iconData generateIcons returned
  fault,      \* per request: the step of its handling at which the file system fails
  mtime,      \* per session directory: the hour it was last modified
  locked,     \* the session directories fs.rmdir cannot remove (a permission issue)
  clock,      \* Date.now(), in hours
  sweep,      \* the run of cleanupOldSessions in progress, if any
  credits,    \* users.credits of the signed-in user
  epc,        \* per enhance-description request: where its handling stands
  seen,       \* per enhance-description request: the credits getUserById returned
  debited,    \* per enhance-description request: what its updateCredits left and resolved with, if it changed the row
  usageLog,   \* the rows of usage_log: the requests that logged their usage
  called,     \* the enhance-description requests that called ai.enhanceDescription
  reply,      \* per enhance-description request: the response sent, if any
  dpc,        \* per download request: where its handling stands
  zip,        \* per download request: zipPath, once it is chosen
  sent        \* per download request: the response, once its head is sent

server == << pc, req, issued, session, dirs, iconDataOf, fault >>
timer == << mtime, locked, clock, sweep >>
billing == << credits, epc, seen, debited, usageLog, called, reply >>
packing == << dpc, zip, sent >>
\* What POST /generate leaves alone.
aside == << timer, billing, packing >>
vars == << input, outcome, result, disk, uploads, pc, req, issued, session, dirs, iconDataOf,
           fault, mtime, locked, clock, sweep, credits, epc, seen, debited, usageLog, called, reply,
           dpc, zip, sent >>

\* No request is in flight on the server.
ServerIdle ==
  /\ pc = << >> /\ req = << >> /\ issued = {}
  /\ session = << >> /\ dirs = {} /\ iconDataOf = << >> /\ fault = << >>

\* No sweep has run and the clock stands at its origin.
TimerIdle == mtime = << >> /\ locked = {} /\ clock = 0 /\ sweep = << >>

\* No download has been requested.
PackingIdle == dpc = << >> /\ zip = << >> /\ sent = << >>

\* No enhance-description request has been made.
BillingIdle ==
  /\ credits = 0 /\ epc = << >> /\ seen = << >>
  /\ debited = << >> /\ usageLog = {} /\ called = {} /\ reply = << >>

InitCalls ==
  /\ outcome = [r \in Runs |-> "pending"]
  /\ result = [r \in Runs |-> Null]
  /\ disk = << >>
  /\ uploads = IF IsNull(input.file) THEN {} ELSE {Val(input.file).path}
  /\ ServerIdle /\ TimerIdle /\ BillingIdle /\ PackingIdle

InitGen == input \in Submissions /\ InitCalls
InitTwice == input \in SubmissionsTwice /\ InitCalls

\* Calls are made one after the other.
InOrder(r) == \A q \in Runs : q < r => outcome[q] # "pending"

\* f with the entries of g added (g's win).
Overwrite(f, g) ==
  [p \in DOMAIN f \cup DOMAIN g |-> IF p \in DOMAIN g THEN g[p] ELSE f[p]]

\* !siteTitle || !siteDescription || !websiteUrl
Invalid(body) == body.siteTitle = "" \/ body.siteDescription = "" \/ body.websiteUrl = ""

\* POST /generate, a required field missing: the error page, before any session.
GenerateRejected(r) ==
  /\ outcome[r] = "pending"
  /\ InOrder(r)
  /\ Invalid(input)
  /\ outcome' = [outcome EXCEPT ![r] = "rejected"]
  /\ UNCHANGED << input, result, disk, uploads, server, aside >>

\* POST /generate run to its response, nothing thrown: the session, the icons
\* (when a file was uploaded), the text artifacts, the upload removed.
GenerateRendered(r) ==
  /\ outcome[r] = "pending"
  /\ InOrder(r)
  /\ ~Invalid(input)
  /\ (IF IsNull(input.file) THEN TRUE ELSE Val(input.file).decodes)
  /\ \E uuid \in RandomUUIDs, now \in Clock,
        failed \in (IF IsNull(input.file) THEN {{}}
                    ELSE {f \in RenderFailures : ~Throws(f)}),
        unwritable \in WriteFailures :
       LET sessionId == generateSessionId(uuid)
           sessionDir == sessionDirOf(sessionId)
           iconData == IF IsNull(input.file) THEN Null
                       ELSE Some(generateIcons(Val(input.file).metadata,
                                               Val(input.file).filename, sessionDir, failed))
           seoData == generateSEO([title |-> input.siteTitle,
                                   description |-> input.siteDescription,
                                   websiteUrl |-> input.websiteUrl,
                                   siteLinks |-> input.siteLinks,
                                   iconData |-> iconData,
                                   sessionDir |-> sessionDir,
                                   sessionId |-> sessionId], now)
           written == IF IsNull(input.file) THEN << >>
                      ELSE iconFiles(Val(input.file).path, sessionDir, failed)
       IN  /\ outcome' = [outcome EXCEPT ![r] = "rendered"]
           /\ result' = [result EXCEPT ![r] = Some(seoData)]
           /\ disk' = Overwrite(Overwrite(disk, written),
                                saveGeneratedFiles(seoData, sessionDir, unwritable))
           /\ uploads' = IF IsNull(input.file) THEN uploads
                         ELSE uploads \ {Val(input.file).path}
  /\ UNCHANGED << input, server, aside >>

\* POST /generate, generateIcons throws (the image does not decode, or the
\* manifest or the browser configuration cannot be written): the upload and
\* the session directory are removed, the error page rendered.
GenerateFailed(r) ==
  /\ outcome[r] = "pending"
  /\ InOrder(r)
  /\ ~Invalid(input)
  /\ (IF IsNull(input.file) THEN FALSE
      ELSE ~Val(input.file).decodes \/ \E failed \in RenderFailures : Throws(failed))
  /\ outcome' = [outcome EXCEPT ![r] = "error"]
  /\ \E uuid \in RandomUUIDs :
       disk' = [p \in {q \in DOMAIN disk :
                         ~StartsWith(q, sessionDirOf(generateSessionId(uuid)) \o "/")} |-> disk[p]]
  /\ uploads' = uploads \ {Val(input.file).path}
  /\ UNCHANGED << input, result, server, aside >>

NextGen == GenerateRejected(1) \/ GenerateRendered(1) \/ GenerateFailed(1)
SpecGen == InitGen /\ [][NextGen]_vars

\* The same form submitted twice, the second call made after the first.
NextTwice ==
  \E r \in Runs : GenerateRejected(r) \/ GenerateRendered(r) \/ GenerateFailed(r)
SpecTwice == InitTwice /\ [][NextTwice]_vars

(***************************************************************************)
(* The server: requests to POST /generate in flight together.  A handler   *)
(* runs without interruption between two awaits, so each action below is   *)
(* the code from one await to the next.                                    *)
(***************************************************************************)
Reqs == 1..NumReqs

\* The file multer stores for request r: 'icon-' + uniqueSuffix + extension.
UploadOf(r, image) ==
  [image EXCEPT !.path = "uploads/icon-170000000000" \o ToString(r) \o "-1.png",
                !.filename = "icon-170000000000" \o ToString(r) \o "-1.png"]

\* The forms request r may carry.
ServerForms(r) ==
  { Submission("My Site <script>", "A site.", "https://example.com/", Null, Null),
    Submission("My Site <script>", "A site.", "https://example.com/", Null,
               Some(UploadOf(r, GoodImage))),
    Submission("My Site <script>", "A site.", "https://example.com/", Null,
               Some(UploadOf(r, BadImage))),
    Submission("My Site <script>", "", "https://example.com/", Null,
               Some(UploadOf(r, GoodImage))) }

\* The requests that may arrive: a form, and whether fs.mkdir fails while the
\* request is served (generated/sessions cannot be written to).
ServerCases(r) ==
  { [form |-> form, fault |-> "none"] : form \in ServerForms(r) }
    \cup { [form |-> Submission("My Site <script>", "A site.", "https://example.com/",
                                 Null, Null),
            fault |-> "mkdir"] }

\* The clock's reading while the modelled requests are served.
ServerClock == [day |-> 1, tick |-> 1]

Init ==
  /\ input = << >>
  /\ outcome = [r \in Reqs |-> "pending"]
  /\ result = [r \in Reqs |-> Null]
  /\ disk = << >>
  /\ uploads = {}
  /\ pc = [r \in Reqs |-> "idle"]
  /\ req = [r \in Reqs |-> Null]
  /\ issued = {}
  /\ session = [r \in Reqs |-> Null]
  /\ dirs = {}
  /\ iconDataOf = [r \in Reqs |-> Null]
  /\ fault = [r \in Reqs |-> "none"]
  /\ TimerIdle /\ BillingIdle /\ PackingIdle

\* The directories createSessionDirectories makes for a session.
sessionDirs(sessionId) ==
  { "uploads", "generated", "generated/sessions", sessionDirOf(sessionId),
    pathJoin(sessionDirOf(sessionId), "icons"), pathJoin(sessionDirOf(sessionId), "temp") }

\* Whether path p lies under directory d.
Under(p, d) == p = d \/ StartsWith(p, d \o "/")

sessionDirOfReq(r) == sessionDirOf(Val(session[r]))

\* upload.single('siteIcon'): the request arrives, multer stores its file.
Receive(r) ==
  /\ pc[r] = "idle"
  /\ \E case \in ServerCases(r) :
       /\ req' = [req EXCEPT ![r] = Some(case.form)]
       /\ fault' = [fault EXCEPT ![r] = case.fault]
       /\ uploads' = IF IsNull(case.form.file) THEN uploads
                     ELSE uploads \cup {Val(case.form.file).path}
  /\ pc' = [pc EXCEPT ![r] = "handler"]
  /\ UNCHANGED << input, outcome, result, disk, issued, session, dirs, iconDataOf, aside >>

\* A handler that allocates the session before it validates the form.
Reject_AfterAllocation(r) ==
  /\ pc[r] = "handler"
  /\ Invalid(Val(req[r]))
  /\ \E uuid \in RandomUUIDs \ issued :
       /\ issued' = issued \cup {uuid}
       /\ session' = [session EXCEPT ![r] = Some(generateSessionId(uuid))]
       /\ dirs' = dirs \cup sessionDirs(generateSessionId(uuid))
  /\ outcome' = [outcome EXCEPT ![r] = "rejected"]
  /\ pc' = [pc EXCEPT ![r] = "done"]
  /\ UNCHANGED << input, result, disk, uploads, req, iconDataOf, fault, aside >>

\* The handler finds a required field missing and renders the error.
Reject(r) ==
  /\ pc[r] = "handler"
  /\ Invalid(Val(req[r]))
  /\ outcome' = [outcome EXCEPT ![r] = "rejected"]
  /\ pc' = [pc EXCEPT ![r] = "done"]
  /\ UNCHANGED << input, result, disk, uploads, req, issued, session, dirs, iconDataOf, fault, aside >>

\* sessionId = generateSessionId(): crypto.randomUUID() returns a value it
\* has not returned before.
AllocateSession(r) ==
  /\ pc[r] = "handler"
  /\ ~Invalid(Val(req[r]))
  /\ \E uuid \in RandomUUIDs \ issued :
       /\ issued' = issued \cup {uuid}
       /\ session' = [session EXCEPT ![r] = Some(generateSessionId(uuid))]
  /\ pc' = [pc EXCEPT ![r] = "mkdir"]
  /\ UNCHANGED << input, outcome, result, disk, uploads, req, dirs, iconDataOf, fault, aside >>

\* sessionDir = await createSessionDirectories(sessionId): mkdir with
\* recursive: true, which succeeds on a directory that already exists.  An
\* error of mkdir is caught and logged inside the loop, and sessionDir is
\* returned all the same.
CreateSessionDirectories(r) ==
  /\ pc[r] = "mkdir"
  /\ dirs' = IF fault[r] = "mkdir" THEN dirs ELSE dirs \cup sessionDirs(Val(session[r]))
  /\ pc' = [pc EXCEPT ![r] = IF IsNull(Val(req[r]).file) THEN "seo" ELSE "icons"]
  /\ UNCHANGED << input, outcome, result, disk, uploads, req, issued, session, iconDataOf, fault, aside >>

\* iconData = await iconGenerator.generateIcons(...), the image decodes.
IconsGenerated(r) ==
  /\ pc[r] = "icons"
  /\ Val(Val(req[r]).file).decodes
  /\ fault[r] = "none"
  /\ LET file == Val(Val(req[r]).file)
     IN  /\ iconDataOf' = [iconDataOf EXCEPT ![r] =
                Some(generateIcons(file.metadata, file.filename, sessionDirOfReq(r), {}))]
         /\ disk' = Overwrite(disk, iconFiles(file.path, sessionDirOfReq(r), {}))
  /\ dirs' = dirs \cup {sessionDirOfReq(r), pathJoin(sessionDirOfReq(r), "icons")}
  /\ pc' = [pc EXCEPT ![r] = "seo"]
  /\ UNCHANGED << input, outcome, result, uploads, req, issued, session, fault, aside >>

\* generateIcons throws: the image does not decode, or its own mkdir of the
\* icons directory fails.
IconsFailed(r) ==
  /\ pc[r] = "icons"
  /\ ~Val(Val(req[r]).file).decodes \/ fault[r] = "mkdir"
  /\ pc' = [pc EXCEPT ![r] = "catch"]
  /\ UNCHANGED << input, outcome, result, disk, uploads, req, issued, session, dirs, iconDataOf, fault, aside >>

\* seoData = await seoGenerator.generateSEO(...): the artifacts are composed
\* and written; a write into a directory that is gone fails and is logged.
ComposeSeo(r) ==
  /\ pc[r] = "seo"
  /\ LET form == Val(req[r])
         seoData == generateSEO([title |-> form.siteTitle,
                                 description |-> form.siteDescription,
                                 websiteUrl |-> form.websiteUrl,
                                 siteLinks |-> form.siteLinks,
                                 iconData |-> iconDataOf[r],
                                 sessionDir |-> sessionDirOfReq(r),
                                 sessionId |-> Val(session[r])], ServerClock)
     IN  /\ result' = [result EXCEPT ![r] = Some(seoData)]
         /\ disk' = IF sessionDirOfReq(r) \in dirs
                    THEN Overwrite(disk, saveGeneratedFiles(seoData, sessionDirOfReq(r), {}))
                    ELSE disk
  /\ pc' = [pc EXCEPT ![r] = "respond"]
  /\ UNCHANGED << input, outcome, uploads, req, issued, session, dirs, iconDataOf, fault, aside >>

\* The upload is unlinked and the result page rendered.
Respond(r) ==
  /\ pc[r] = "respond"
  /\ uploads' = IF IsNull(Val(req[r]).file) THEN uploads
                ELSE uploads \ {Val(Val(req[r]).file).path}
  /\ outcome' = [outcome EXCEPT ![r] = "rendered"]
  /\ pc' = [pc EXCEPT ![r] = "done"]
  /\ UNCHANGED << input, result, disk, req, issued, session, dirs, iconDataOf, fault, aside >>

\* A catch block that leaves the session directory in place.
Catch_NoReclaim(r) ==
  /\ pc[r] = "catch"
  /\ uploads' = IF IsNull(Val(req[r]).file) THEN uploads
                ELSE uploads \ {Val(Val(req[r]).file).path}
  /\ outcome' = [outcome EXCEPT ![r] = "error"]
  /\ pc' = [pc EXCEPT ![r] = "done"]
  /\ UNCHANGED << input, result, disk, req, issued, session, dirs, iconDataOf, fault, aside >>

\* The catch block: the upload is unlinked, the session directory removed
\* with everything under it, the error page rendered.
Catch(r) ==
  /\ pc[r] = "catch"
  /\ uploads' = IF IsNull(Val(req[r]).file) THEN uploads
                ELSE uploads \ {Val(Val(req[r]).file).path}
  /\ dirs' = {d \in dirs : ~Under(d, sessionDirOfReq(r))}
  /\ disk' = [p \in {q \in DOMAIN disk : ~Under(q, sessionDirOfReq(r))} |-> disk[p]]
  /\ outcome' = [outcome EXCEPT ![r] = "error"]
  /\ pc' = [pc EXCEPT ![r] = "done"]
  /\ UNCHANGED << input, result, req, issued, session, iconDataOf, fault, aside >>

Next ==
  \E r \in Reqs :
    \/ Receive(r)
    \/ Reject(r)
    \/ AllocateSession(r)
    \/ CreateSessionDirectories(r)
    \/ IconsGenerated(r)
    \/ IconsFailed(r)
    \/ ComposeSeo(r)
    \/ Respond(r)
    \/ Catch(r)

Spec == Init /\ [][Next]_vars


(***************************************************************************)
(* Reading the generated artifacts back.                                   *)
(***************************************************************************)
Rendered(r) == outcome[r] = "rendered"
Bundle(r) == Val(result[r])

\* The number of times the character c occurs in s.
CountChar(s, c) == Cardinality(SepPositions(s, c))

\* The <url> entries of a sitemap document, in order.
SitemapEntries(xml) ==
  LET lines == Map(Split(xml, "\n"), Trim)
      element(tag) ==
        SelectSeq(lines, LAMBDA l : StartsWith(l, "<" \o tag \o ">")
                                    /\ EndsWith(l, "</" \o tag \o ">"))
      inner(tag, l) == SubSeq(l, Len(tag) + 3, Len(l) - Len(tag) - 3)
      locs == element("loc")
      lastmods == element("lastmod")
      changefreqs == element("changefreq")
      priorities == element("priority")
  IN  [i \in 1..Len(SelectSeq(lines, LAMBDA l : l = "<url>")) |->
         [loc |-> inner("loc", locs[i]),
          lastmod |-> inner("lastmod", lastmods[i]),
          changefreq |-> inner("changefreq", changefreqs[i]),
          priority |-> inner("priority", priorities[i])]]

\* The URLs the typed lines stand for, in the order typed.
RECURSIVE TypedUrls(_)
TypedUrls(lines) ==
  IF lines = << >> THEN << >>
  ELSE (IF IsNull(Head(lines).url) THEN << >> ELSE << Val(Head(lines).url) >>)
       \o TypedUrls(Tail(lines))

\* The siteLinks field holds nothing but white space.
BlankText(s) == \A i \in 1..Len(s) : CharAt(s, i) \in WhiteSpace

(***************************************************************************)
(* C2.  For every valid input the sitemap has as many <url> entries as the *)
(* parsed site-link list has links, and entry 0 is the canonical homepage  *)
(* with priority "1.0" and changefreq "daily", also when the typed list    *)
(* holds the homepage at a later position.                                 *)
(***************************************************************************)
C2_HomepageFirst ==
  Rendered(1) =>
    LET b == Bundle(1)
        entries == SitemapEntries(b.sitemapXml)
    IN  /\ Len(entries) = Len(b.siteLinks)
        /\ Len(entries) >= 1
        /\ entries[1].loc = b.websiteUrl \o "/"
        /\ entries[1].priority = "1.0"
        /\ entries[1].changefreq = "daily"

\* The part of C2 the code keeps: one entry per parsed link.
C2_EntryPerLink ==
  Rendered(1) => Len(SitemapEntries(Bundle(1).sitemapXml)) = Len(Bundle(1).siteLinks)

(***************************************************************************)
(* C3.  When siteLinks is absent, empty or white space only, the parsed    *)
(* list is exactly [canonical site URL] and the sitemap has exactly one    *)
(* entry, for that URL.                                                    *)
(***************************************************************************)
NoLinksGiven == IsNull(input.siteLinks) \/ BlankText(Val(input.siteLinks))

C3_NoLinksOneEntry ==
  (Rendered(1) /\ NoLinksGiven) =>
    LET b == Bundle(1)
        entries == SitemapEntries(b.sitemapXml)
    IN  /\ b.siteLinks = << b.websiteUrl >>
        /\ Len(entries) = 1
        /\ entries[1].loc = b.websiteUrl \o "/"

C3_Witness ==
  /\ Rendered(1)
  /\ ~IsNull(input.siteLinks)
  /\ Len(Val(input.siteLinks)) > 0
  /\ BlankText(Val(input.siteLinks))
  /\ Len(SitemapEntries(Bundle(1).sitemapXml)) = 1

(***************************************************************************)
(* C4.  A typed line that is no URL is dropped without an error: it is in  *)
(* neither the parsed list nor the sitemap, the valid lines keep their     *)
(* order, and when no line is valid the list is [canonical site URL].      *)
(***************************************************************************)
MalformedTexts == {l.text : l \in {o \in LineOptions : IsNull(o.url) /\ ~BlankText(o.text)}}

C4_MalformedDropped ==
  (~IsNull(input.lines) /\ outcome[1] # "pending") =>
    /\ Rendered(1)
    /\ LET b == Bundle(1)
           valid == TypedUrls(Val(input.lines))
       IN  /\ b.siteLinks = valid \/ b.siteLinks = << b.websiteUrl >> \o valid
           /\ valid = << >> => b.siteLinks = << b.websiteUrl >>
           /\ \A m \in MalformedTexts :
                /\ ~Includes(b.siteLinks, m)
                /\ ~StrIncludes(b.sitemapXml, m)

C4_Witness ==
  /\ Rendered(1)
  /\ ~IsNull(input.lines)
  /\ \E i \in 1..Len(Val(input.lines)) : Val(input.lines)[i].text \in MalformedTexts
  /\ \E i \in 1..Len(Val(input.lines)) : ~IsNull(Val(input.lines)[i].url)
  /\ Len(Bundle(1).siteLinks) >= 1


(***************************************************************************)
(* C5.  sanitizeText returns its input trimmed, with every "<" replaced by *)
(* "&lt;" and every ">" by "&gt;", so that no "<" or ">" of the title or   *)
(* the description reaches a generated artifact: each artifact holds the   *)
(* angle brackets of its own markup and no others.                         *)
(***************************************************************************)
\* What the texts the model submits must become.
Escaped(raw) ==
  CASE raw = "My Site <script>" -> "My Site &lt;script&gt;"
    [] raw = "  <b>Tom & Ann</b> \n" -> "&lt;b&gt;Tom & Ann&lt;/b&gt;"
    [] raw = "A site." -> "A site."
    [] raw = " 1 < 2 > 0 \"quoted\"\t" -> "1 &lt; 2 &gt; 0 \"quoted\""

\* Every tag of a group holds one "<" and one ">", but for extra more.
MarkupOnly(text, tags, extra) ==
  \A c \in {"<", ">"} : CountChar(text, c) = tags + extra

C5_NoRawAngleBrackets ==
  Rendered(1) =>
    LET b == Bundle(1)
        t == Escaped(input.siteTitle)
        d == Escaped(input.siteDescription)
    IN  /\ b.title = t
        /\ b.description = d
        /\ \A c \in {"<", ">"} : CountChar(b.title, c) = 0 /\ CountChar(b.description, c) = 0
        /\ b.metaTags[3] = "<title>" \o t \o "</title>"
        /\ b.metaTags[4] = "<meta name=\"description\" content=\"" \o d \o "\">"
        /\ b.openGraphTags[1] = "<meta property=\"og:title\" content=\"" \o t \o "\">"
        /\ b.openGraphTags[2] = "<meta property=\"og:description\" content=\"" \o d \o "\">"
        /\ b.twitterTags[2] = "<meta name=\"twitter:title\" content=\"" \o t \o "\">"
        /\ b.twitterTags[3] = "<meta name=\"twitter:description\" content=\"" \o d \o "\">"
        /\ MarkupOnly(Join(b.metaTags, "\n"), Len(b.metaTags), 1)
        /\ MarkupOnly(Join(b.openGraphTags, "\n"), Len(b.openGraphTags), 0)
        /\ MarkupOnly(Join(b.twitterTags, "\n"), Len(b.twitterTags), 0)
        /\ MarkupOnly(b.structuredData, 2, 0)
        /\ MarkupOnly(b.htmlHead,
                      Len(b.metaTags) + Len(b.openGraphTags) + Len(b.twitterTags), 21)

C5_Witness ==
  /\ Rendered(1)
  /\ input.siteTitle = "My Site <script>"
  /\ Bundle(1).title = "My Site &lt;script&gt;"
  /\ CountChar(input.siteDescription, ">") > 0
  /\ CountChar(Bundle(1).htmlHead, ">") > 0

(***************************************************************************)
(* C6.  Every icon or image reference in the meta tags, the Open Graph     *)
(* tags, the Twitter tags and complete.html is the icon's external path    *)
(* /icons/<name>, never its internal path /generated/sessions/<id>/...     *)
(***************************************************************************)
HasIcons(r) == Rendered(r) /\ ~IsNull(Bundle(r).iconData)
Catalog(r) == Val(Bundle(r).iconData)

\* The documents that embed icon references.
TagDocuments(b) ==
  { Join(b.metaTags, "\n"), Join(b.openGraphTags, "\n"), Join(b.twitterTags, "\n"),
    b.htmlHead }

C6_ExternalPathsOnly ==
  HasIcons(1) =>
    LET b == Bundle(1)
        icons == Catalog(1).icons
        og == Catalog(1).ogImage
    IN  /\ \A i \in 1..Len(icons) : StartsWith(icons[i].href, "/generated/sessions/")
        /\ ~IsNull(og) => StartsWith(Val(og).href, "/generated/sessions/")
        /\ \A doc \in TagDocuments(b) :
             ~StrIncludes(doc, "/generated/") /\ ~StrIncludes(doc, b.sessionId)
        /\ \A i \in 1..Len(icons) :
             icons[i].rel \in {"icon", "apple-touch-icon"} =>
               \E k \in 1..Len(b.metaTags) :
                 EndsWith(b.metaTags[k], " href=\"/icons/" \o icons[i].name \o "\">")
        /\ ~IsNull(og) =>
             /\ Includes(b.openGraphTags, "<meta property=\"og:image\" content=\""
                           \o b.websiteUrl \o "/icons/og-image.png\">")
             /\ Includes(b.twitterTags, "<meta name=\"twitter:image\" content=\""
                           \o b.websiteUrl \o "/icons/og-image.png\">")

C6_Witness ==
  /\ HasIcons(1)
  /\ ~IsNull(Catalog(1).ogImage)
  /\ Len(Bundle(1).metaTags) > 8
  /\ StrIncludes(Bundle(1).htmlHead, "href=\"/icons/favicon-32x32.png\"")

(***************************************************************************)
(* C7.  In every catalog generateIcons returns, each descriptor's external *)
(* path (userHref) does not hold the session identifier and its internal   *)
(* path (href) does.                                                       *)
(***************************************************************************)
C7_SessionInInternalPathOnly ==
  HasIcons(1) =>
    LET id == Bundle(1).sessionId
        icons == Catalog(1).icons
        og == Catalog(1).ogImage
    IN  /\ \A i \in 1..Len(icons) :
             StrIncludes(icons[i].href, id) /\ ~StrIncludes(icons[i].userHref, id)
        /\ ~IsNull(og) =>
             StrIncludes(Val(og).href, id) /\ ~StrIncludes(Val(og).userHref, id)

C7_Witness ==
  /\ HasIcons(1)
  /\ Len(Catalog(1).icons) = Len(iconSizes)
  /\ ~IsNull(Catalog(1).ogImage)
  /\ StrIncludes(Val(Catalog(1).ogImage).href, Bundle(1).sessionId)

(***************************************************************************)
(* C8.  Without an uploaded image no tag group holds an icon or image      *)
(* reference and complete.html holds no <link rel="icon"> entry.           *)
(***************************************************************************)
IconMarks == {"rel=\"icon\"", "apple-touch-icon", "og:image", "twitter:image", "/icons/"}

\* Whether text holds one of the marks.
HoldsMark(text, marks) ==
  LET firsts == {CharAt(m, 1) : m \in marks}
  IN  \E i \in 1..Len(text) :
        /\ CharAt(text, i) \in firsts
        /\ \E m \in marks : /\ i + Len(m) - 1 <= Len(text)
                             /\ SubSeq(text, i, i + Len(m) - 1) = m

C8_NoImageNoReferences ==
  (Rendered(1) /\ IsNull(input.file)) =>
    LET b == Bundle(1)
    IN  /\ IsNull(b.iconData)
        /\ \A doc \in TagDocuments(b) : ~HoldsMark(doc, IconMarks)

C8_Witness ==
  /\ Rendered(1)
  /\ IsNull(input.file)
  /\ Len(Bundle(1).metaTags) = 8
  /\ StrIncludes(Bundle(1).htmlHead, "<link rel=\"canonical\"")


(***************************************************************************)
(* C9.  Round trip: every icon external path complete.html refers to       *)
(* matches exactly one descriptor of the catalog returned with the bundle. *)
(***************************************************************************)
\* The tags of html that open with one of the given texts, each from its
\* "<" to its ">".
TagsOpening(html, opens) ==
  LET at(i, open) == i + Len(open) - 1 <= Len(html)
                      /\ SubSeq(html, i, i + Len(open) - 1) = open
      starts == {i \in SepPositions(html, "<") : \E open \in opens : at(i, open)}
      end(i) == CHOOSE j \in i..Len(html) :
                  CharAt(html, j) = ">" /\ \A k \in i..(j - 1) : CharAt(html, k) # ">"
  IN  {SubSeq(html, i, end(i)) : i \in starts}

\* The value of the attribute name of a tag.
AttrValue(tag, name) ==
  LET pat == " " \o name \o "=\""
      starts == {i \in 1..(Len(tag) - Len(pat) + 1) : SubSeq(tag, i, i + Len(pat) - 1) = pat}
      from == Min(starts) + Len(pat)
      quotes == {j \in from..Len(tag) : CharAt(tag, j) = "\""}
  IN  SubSeq(tag, from, Min(quotes) - 1)

\* The icon and image paths complete.html refers to: the href of its icon
\* links, and the content of its og:image and twitter:image tags after the
\* site URL.
IconRefs(b) ==
  LET links == TagsOpening(b.htmlHead, {"<link rel=\"icon\" ", "<link rel=\"apple-touch-icon\" "})
      images == TagsOpening(b.htmlHead, {"<meta property=\"og:image\" ", "<meta name=\"twitter:image\" "})
      afterSite(url) == SubSeq(url, Len(b.websiteUrl) + 1, Len(url))
  IN  {AttrValue(tag, "href") : tag \in links}
      \cup {afterSite(AttrValue(tag, "content")) : tag \in images}

\* The descriptors of the catalog whose external path is p: those of the
\* icon list, and the social-preview descriptor.
ListMatches(catalog, p) ==
  Cardinality({i \in 1..Len(catalog.icons) : catalog.icons[i].userHref = p})
PreviewMatches(catalog, p) ==
  IF ~IsNull(catalog.ogImage) /\ Val(catalog.ogImage).userHref = p THEN 1 ELSE 0

TextArtifacts(r) ==
  LET b == Bundle(r)
  IN  [metaTags |-> b.metaTags, openGraphTags |-> b.openGraphTags,
       twitterTags |-> b.twitterTags, structuredData |-> b.structuredData,
       htmlHead |-> b.htmlHead, robotsTxt |-> b.robotsTxt, sitemapXml |-> b.sitemapXml]

DateOf(b) == SubSeq(b.timestamp, 1, 10)
RenderedNames(b) ==
  IF IsNull(b.iconData) THEN << >>
  ELSE [i \in 1..Len(Val(b.iconData).icons) |-> Val(b.iconData).icons[i].name]

Allocated == {r \in Reqs : ~IsNull(session[r])}

C1_UniqueSessionIds ==
  \A a \in Allocated, b \in Allocated : a # b => Val(session[a]) # Val(session[b])

\* The harm: a request that failed has removed the files another request
\* wrote for a caller it answered with a result page.
C1_RenderedSessionKept ==
  \A r \in Reqs :
    (outcome[r] = "rendered" /\ ~IsNull(Val(req[r]).file)) =>
      \E p \in DOMAIN disk : Under(p, sessionDirOfReq(r))

(***************************************************************************)
(* C11.  Every URL embedded in a generated artifact (canonical link,       *)
(* og:url, og:image, twitter:image, structured-data url and search         *)
(* template, robots Sitemap line, every sitemap <loc>) is built from the   *)
(* same canonicalized site URL: trimmed, trailing slashes stripped.        *)
(***************************************************************************)
\* The canonical form of each site URL the model submits.
Canonical(raw) ==
  CASE raw = "https://example.com/" -> "https://example.com"
    [] raw = "  https://example.com//\n" -> "https://example.com"
    [] raw = "https://example.com/shop" -> "https://example.com/shop"

\* The URLs of the vocabularies and services the artifacts name: not the
\* site's.
VocabularyUrls ==
  { "https://schema.org", "https://fonts.googleapis.com", "https://fonts.gstatic.com",
    "http://www.sitemaps.org/schemas/sitemap/0.9" }

\* The http(s) URLs written in text: each runs from "http" to the next
\* quote, angle bracket or white space.
UrlsIn(text) ==
  LET t == text \o "\n"
      stops == {"\"", "<", " ", "\n"}
      starts == {i \in 1..(Len(text) - 3) : CharAt(t, i) = "h" /\ SubSeq(t, i, i + 3) = "http"}
      end(i) == CHOOSE j \in i..Len(t) :
                  CharAt(t, j) \in stops /\ \A k \in i..(j - 1) : CharAt(t, k) \notin stops
  IN  {SubSeq(t, i, end(i) - 1) : i \in starts}

\* The site's URLs in the tag groups, complete.html, the structured data
\* and robots.txt.
SiteUrls(b) ==
  UNION { UrlsIn(doc) : doc \in TagDocuments(b) \cup {b.structuredData, b.robotsTxt} }
    \ VocabularyUrls

\* The URLs the code builds on the site URL site.
BuiltOn(site) ==
  { site \o "/", site \o "/icons/og-image.png",
    site \o "/search?q={search_term_string}", site \o "/sitemap.xml" }

\* url with a trailing slash, if it has none.
Slashed(url) == IF EndsWith(url, "/") THEN url ELSE url \o "/"

\* As claimed: the sitemap's <loc> entries included.
C11_AllUrlsFromSiteUrl ==
  Rendered(1) =>
    LET b == Bundle(1)
        site == Canonical(input.websiteUrl)
        entries == SitemapEntries(b.sitemapXml)
    IN  /\ b.websiteUrl = site
        /\ SiteUrls(b) \subseteq BuiltOn(site)
        /\ \A i \in 1..Len(entries) : StartsWith(entries[i].loc, site \o "/")

\* As amended: a <loc> is the site URL or a link as typed, with a trailing
\* slash.
C11_UrlsFromSiteUrlOrTyped ==
  Rendered(1) =>
    LET b == Bundle(1)
        site == Canonical(input.websiteUrl)
        entries == SitemapEntries(b.sitemapXml)
        typed == IF IsNull(input.lines) THEN << >> ELSE TypedUrls(Val(input.lines))
    IN  /\ b.websiteUrl = site
        /\ SiteUrls(b) \subseteq BuiltOn(site)
        /\ site \o "/" \in SiteUrls(b)
        /\ site \o "/sitemap.xml" \in SiteUrls(b)
        /\ \A i \in 1..Len(entries) :
             \/ entries[i].loc = site \o "/"
             \/ \E k \in 1..Len(typed) : entries[i].loc = Slashed(typed[k])

C11_Witness ==
  /\ Rendered(1)
  /\ input.websiteUrl = "  https://example.com//\n"
  /\ ~IsNull(Bundle(1).iconData)
  /\ "https://example.com/icons/og-image.png" \in SiteUrls(Bundle(1))
  /\ "https://example.com/search?q={search_term_string}" \in SiteUrls(Bundle(1))

(***************************************************************************)
(* C14.  A request whose session directories could not be created fails:   *)
(* it is never answered with a result page.                                *)
(***************************************************************************)
C14_FailedAllocationFails ==
  \A r \in Reqs :
    (fault[r] = "mkdir" /\ pc[r] = "done") => outcome[r] = "error"

(***************************************************************************)
(* C15.  The step that answers a request with the generation error leaves  *)
(* no directory and no file of the request's session behind, and the       *)
(* response carries the error page only, no result.                        *)
(***************************************************************************)
\* What exists under the session directory of request r.
SessionRemains(r, dirSet, files) ==
  {d \in dirSet : Under(d, sessionDirOfReq(r))}
    \cup {p \in DOMAIN files : Under(p, sessionDirOfReq(r))}

C16_RejectedBeforeAllocation ==
  /\ \A r \in Reqs : outcome[r] = "rejected" => IsNull(session[r])
  /\ Allocated = {} => {d \in dirs : StartsWith(d, "generated/sessions/")} = {}

\* One request was rejected while another was given a session directory.
C16_Witness ==
  \E r \in Reqs :
    /\ outcome[r] = "rejected"
    /\ IsNull(session[r])
    /\ \E o \in Reqs \ {r} : ~IsNull(session[o]) /\ sessionDirOfReq(o) \in dirs

(***************************************************************************)
(* C17.  Once a request that carried an upload is answered, its upload is  *)
(* no longer in uploads/.                                                  *)
(***************************************************************************)
C17_UploadDeleted ==
  \A r \in Reqs :
    (pc[r] = "done" /\ ~IsNull(Val(req[r]).file)) =>
      Val(Val(req[r]).file).path \notin uploads

(***************************************************************************)
(* The cleanup timer: setInterval(cleanupOldSessions, one hour).  Time is  *)
(* counted in hours.  Each action is the code from one await to the next.  *)
(***************************************************************************)
\* 2 * 60 * 60 * 1000 milliseconds.
TwoHours == 2

\* A cutoff that takes in the directory modified exactly two hours ago.
Expired_Inclusive(stats, twoHoursAgo) == stats.isDirectory /\ stats.mtime <= twoHoursAgo

\* stats.isDirectory() && stats.mtime.getTime() < twoHoursAgo
Expired(stats, twoHoursAgo) == stats.isDirectory /\ stats.mtime < twoHoursAgo

sessionsDir == pathJoin("generated", "sessions")

\* The session directories on disk when the server starts.
OldSessions == { pathJoin(sessionsDir, "a1b2c3d4e5f6071" \o ToString(i)) : i \in 1..MaxSessions }

\* A file that lies in generated/sessions beside the session directories.
StrayFile == pathJoin(sessionsDir, ".gitkeep")

\* The orders in which readdir may list the entries S.
RECURSIVE Orders(_)
Orders(S) ==
  IF S = {} THEN { << >> }
  ELSE UNION { { << e >> \o rest : rest \in Orders(S \ {e}) } : e \in S }

\* fs.readdir(sessionsDir): what lies directly in generated/sessions.
Entries ==
  {d \in dirs : StartsWith(d, sessionsDir \o "/") /\ Len(d) = Len(sessionsDir) + 17}
    \cup {p \in DOMAIN disk : p = StrayFile}

\* fs.stat(sessionPath) of an entry that exists.
Stat(entry) == [isDirectory |-> entry \in dirs, mtime |-> mtime[entry]]

\* What cannot be removed: nothing, or the first session directory.
LockedChoices == { {}, {pathJoin(sessionsDir, "a1b2c3d4e5f60711")} }

SweepIdle ==
  [pc |-> "idle", todo |-> << >>, twoHoursAgo |-> 0, listed |-> {}, removed |-> {},
   status |-> "none"]

InitSweep ==
  /\ input = << >> /\ outcome = << >> /\ result = << >> /\ uploads = {}
  /\ pc = << >> /\ req = << >> /\ issued = {} /\ session = << >>
  /\ iconDataOf = << >> /\ fault = << >>
  /\ BillingIdle /\ PackingIdle
  /\ clock = MaxHour - 1
  /\ dirs = {"uploads", "generated", sessionsDir} \cup OldSessions
  /\ \E stray \in BOOLEAN :
       disk = [p \in { pathJoin(d, "meta-tags.html") : d \in OldSessions }
                       \cup (IF stray THEN {StrayFile} ELSE {}) |-> "<title>My Site</title>"]
  /\ mtime \in [OldSessions \cup {StrayFile} -> 0..(MaxHour - 1)]
  /\ locked \in LockedChoices
  /\ sweep = SweepIdle

\* An hour passes.
Tick ==
  /\ clock < MaxHour
  /\ clock' = clock + 1
  /\ UNCHANGED << input, outcome, result, disk, uploads, server, mtime, locked, sweep, billing, packing >>

\* The timer fires: await fs.mkdir(sessionsDir, { recursive: true }).
SweepStart ==
  /\ sweep.pc = "idle"
  /\ dirs' = dirs \cup {"generated", sessionsDir}
  /\ sweep' = [SweepIdle EXCEPT !.pc = "readdir"]
  /\ UNCHANGED << input, outcome, result, disk, uploads, pc, req, issued, session,
                  iconDataOf, fault, mtime, locked, clock, billing, packing >>

\* The sweep has looked at every entry of todo: cleanupOldSessions returns.
Continue(s, todo) ==
  IF todo = << >> THEN [s EXCEPT !.pc = "idle", !.todo = << >>, !.status = "completed"]
  ELSE [s EXCEPT !.pc = "stat", !.todo = todo]

\* sessions = await fs.readdir(sessionsDir); twoHoursAgo = Date.now() - two hours.
SweepList ==
  /\ sweep.pc = "readdir"
  /\ \E sessions \in Orders(Entries) :
       sweep' = Continue([sweep EXCEPT !.twoHoursAgo = clock - TwoHours,
                                       !.listed = Entries], sessions)
  /\ UNCHANGED << input, outcome, result, disk, uploads, server, mtime, locked, clock, billing, packing >>

\* stats = await fs.stat(sessionPath), the entry exists: it is removed next
\* when it is an expired directory, passed over otherwise.
SweepStat ==
  /\ sweep.pc = "stat"
  /\ Head(sweep.todo) \in dirs \cup DOMAIN disk
  /\ sweep' = IF Expired(Stat(Head(sweep.todo)), sweep.twoHoursAgo)
              THEN [sweep EXCEPT !.pc = "rmdir"]
              ELSE Continue(sweep, Tail(sweep.todo))
  /\ UNCHANGED << input, outcome, result, disk, uploads, server, mtime, locked, clock, billing, packing >>

\* fs.stat rejects, the entry is gone: the one catch around the whole loop
\* logs the error and cleanupOldSessions returns.
SweepStatFailed ==
  /\ sweep.pc = "stat"
  /\ Head(sweep.todo) \notin dirs \cup DOMAIN disk
  /\ sweep' = [sweep EXCEPT !.pc = "idle", !.todo = << >>, !.status = "aborted"]
  /\ UNCHANGED << input, outcome, result, disk, uploads, server, mtime, locked, clock, billing, packing >>

\* fs.rmdir rejects: the one catch around the whole loop logs the error and
\* cleanupOldSessions returns.
SweepRemoveFailed ==
  /\ sweep.pc = "rmdir"
  /\ Head(sweep.todo) \in locked
  /\ sweep' = [sweep EXCEPT !.pc = "idle", !.todo = << >>, !.status = "aborted"]
  /\ UNCHANGED << input, outcome, result, disk, uploads, server, mtime, locked, clock, billing, packing >>

\* await fs.rmdir(sessionPath, { recursive: true }).
SweepRemove ==
  /\ sweep.pc = "rmdir"
  /\ Head(sweep.todo) \notin locked
  /\ LET sessionPath == Head(sweep.todo)
     IN  /\ dirs' = {d \in dirs : ~Under(d, sessionPath)}
         /\ disk' = [p \in {q \in DOMAIN disk : ~Under(q, sessionPath)} |-> disk[p]]
         /\ sweep' = Continue([sweep EXCEPT !.removed = @ \cup {sessionPath}],
                              Tail(sweep.todo))
  /\ UNCHANGED << input, outcome, result, uploads, pc, req, issued, session,
                  iconDataOf, fault, mtime, locked, clock, billing, packing >>

\* A request being served in session directory d fails: the catch block of
\* POST /generate removes d.  Such a directory was made within the hour.
CatchRemoves(d) ==
  /\ d \in dirs
  /\ d \notin locked
  /\ mtime[d] = clock
  /\ dirs' = {e \in dirs : ~Under(e, d)}
  /\ disk' = [p \in {q \in DOMAIN disk : ~Under(q, d)} |-> disk[p]]
  /\ UNCHANGED << input, outcome, result, uploads, pc, req, issued, session,
                  iconDataOf, fault, timer, billing, packing >>

NextSweep ==
  \/ Tick
  \/ SweepStart
  \/ SweepList
  \/ SweepStat
  \/ SweepStatFailed
  \/ SweepRemove
  \/ SweepRemoveFailed
  \/ \E d \in OldSessions : CatchRemoves(d)

SpecSweep == InitSweep /\ [][NextSweep]_vars

\* setInterval fires the sweep every hour whatever else happens, time passes,
\* and every call the sweep awaits settles.
SpecSweepFair ==
  /\ SpecSweep
  /\ WF_vars(Tick)
  /\ WF_vars(SweepStart)
  /\ WF_vars(SweepList)
  /\ WF_vars(SweepStat)
  /\ WF_vars(SweepStatFailed)
  /\ WF_vars(SweepRemove)
  /\ WF_vars(SweepRemoveFailed)

(***************************************************************************)
(* C12.  A sweep removes, with everything under it, every session          *)
(* directory last modified more than two hours before the sweep, and       *)
(* removes no directory modified within the two hours before it.           *)
(***************************************************************************)
\* How long before the sweep's reading of the clock d was last modified.
AgeAtSweep(d) == (sweep.twoHoursAgo + TwoHours) - mtime[d]

C13_SweepSurvivesFailure ==
  (sweep.pc = "idle" /\ sweep.status # "none") =>
    \A d \in sweep.listed \cap OldSessions :
      AgeAtSweep(d) > TwoHours => d \notin dirs

(***************************************************************************)
(* POST /enhance-description: requests of one signed-in user in flight     *)
(* together.  Each action is the code from one await to the next; a        *)
(* statement sent to the database takes effect in one step.                *)
(***************************************************************************)
\* What a request may carry: whether it comes with a signed-in session, and
\* req.body.description.
EnhanceCases ==
  { [signedIn |-> TRUE, description |-> "A site."],
    [signedIn |-> TRUE, description |-> "  "],
    [signedIn |-> FALSE, description |-> "A site."] }

\* res.status(status).json({ success, error, remainingCredits }), the
\* members as res.json writes them ("" for a member that is not sent).
Json(status, error, remainingCredits) ==
  [status |-> status, success |-> status = 200, error |-> error,
   remainingCredits |-> remainingCredits]

\* A middleware that lets every signed-in user through.
requireCredits_NoCheck(signedIn, user, creditsNeeded) ==
  IF ~signedIn THEN Some(Json(401, "Authentication required", "")) ELSE Null

\* requireCredits(creditsNeeded): the response it sends, or none when it
\* calls next().  user is absent while the session has not been looked at.
requireCredits(signedIn, user, creditsNeeded) ==
  IF ~signedIn THEN Some(Json(401, "Authentication required", ""))
  ELSE IF IsNull(user) THEN Null
  ELSE IF Val(user).credits < creditsNeeded
       THEN Some(Json(402, "Insufficient credits. You need " \o ToString(creditsNeeded)
                           \o " credit(s) but have " \o ToString(Val(user).credits) \o ".", ""))
       ELSE Null

\* db.getUserById(userId): the row of the signed-in user.
getUserById == [credits |-> credits]

\* An UPDATE without the condition credits >= ?.
updateCredits_Unguarded(balance, creditsToDeduct) ==
  [rejected |-> FALSE, credits |-> balance - creditsToDeduct, value |-> "true"]

\* db.updateCredits(userId, creditsToDeduct): UPDATE users SET credits =
\* credits - ? WHERE id = ? AND credits >= ?.  No row changed: the promise
\* rejects with 'Insufficient credits'.  Otherwise it resolves with
\* this.changes > 0, that is with true.
updateCredits(balance, creditsToDeduct) ==
  IF balance >= creditsToDeduct
  THEN [rejected |-> FALSE, credits |-> balance - creditsToDeduct, value |-> "true"]
  ELSE [rejected |-> TRUE, credits |-> balance, value |-> "Insufficient credits"]

InitEnhance ==
  /\ input = << >> /\ outcome = << >> /\ result = << >> /\ disk = << >> /\ uploads = {}
  /\ pc = << >> /\ issued = {} /\ session = << >> /\ dirs = {}
  /\ iconDataOf = << >> /\ fault = << >>
  /\ TimerIdle /\ PackingIdle
  /\ req = [e \in Reqs |-> Null]
  /\ credits \in 0..MaxCredits
  /\ epc = [e \in Reqs |-> "idle"]
  /\ seen = [e \in Reqs |-> Null]
  /\ debited = [e \in Reqs |-> Null]
  /\ usageLog = {}
  /\ called = {}
  /\ reply = [e \in Reqs |-> Null]

\* The response is sent and the request is over.
Send(e, response) ==
  /\ reply' = [reply EXCEPT ![e] = Some(response)]
  /\ epc' = [epc EXCEPT ![e] = "done"]

\* The request arrives at requireCredits(1): without a session it is
\* answered 401, with one db.getUserById is awaited.
EnhanceArrive(e) ==
  /\ epc[e] = "idle"
  /\ \E case \in EnhanceCases :
       /\ req' = [req EXCEPT ![e] = Some(case)]
       /\ IF IsNull(requireCredits(case.signedIn, Null, 1))
          THEN epc' = [epc EXCEPT ![e] = "getUser"] /\ reply' = reply
          ELSE Send(e, Val(requireCredits(case.signedIn, Null, 1)))
  /\ UNCHANGED << input, outcome, result, disk, uploads, pc, issued, session, dirs,
                  iconDataOf, fault, timer, packing, credits, seen, debited, usageLog, called >>

\* getUserById resolves.  Credits short: 402.  Otherwise next() runs the
\* handler up to its first await: 400 for a blank description, else
\* db.updateCredits(userId, 1) is awaited.
EnhanceCheck(e) ==
  /\ epc[e] = "getUser"
  /\ seen' = [seen EXCEPT ![e] = Some(getUserById.credits)]
  /\ LET answer == requireCredits(Val(req[e]).signedIn, Some(getUserById), 1)
     IN  IF ~IsNull(answer) THEN Send(e, Val(answer))
         ELSE IF Trim(Val(req[e]).description) = ""
              THEN Send(e, Json(400, "Description is required for enhancement", ""))
              ELSE epc' = [epc EXCEPT ![e] = "debit"] /\ reply' = reply
  /\ UNCHANGED << input, outcome, result, disk, uploads, server, timer, packing, credits,
                  debited, usageLog, called >>

\* A handler that goes on to the upstream call without debiting.
EnhanceDebit_Skipped(e) ==
  /\ epc[e] = "debit"
  /\ epc' = [epc EXCEPT ![e] = "log"]
  /\ UNCHANGED << input, outcome, result, disk, uploads, server, timer, packing, credits, seen,
                  debited, usageLog, called, reply >>

\* remainingCredits = await db.updateCredits(userId, 1).  A rejection goes to
\* the catch block, which answers 402 for 'Insufficient credits'.
EnhanceDebit(e) ==
  /\ epc[e] = "debit"
  /\ LET update == updateCredits(credits, 1)
     IN  /\ credits' = update.credits
         /\ IF update.rejected
            THEN /\ Send(e, Json(402, "Insufficient credits. Please add more credits to use AI enhancement.", ""))
                 /\ debited' = debited
            ELSE /\ debited' = [debited EXCEPT ![e] = Some([credits |-> update.credits, value |-> update.value])]
                 /\ epc' = [epc EXCEPT ![e] = "log"]
                 /\ reply' = reply
  /\ UNCHANGED << input, outcome, result, disk, uploads, server, timer, packing, seen,
                  usageLog, called >>

\* await db.logUsage(...) resolves, and ai.enhanceDescription(...) is called.
EnhanceLog(e) ==
  /\ epc[e] = "log"
  /\ usageLog' = usageLog \cup {e}
  /\ called' = called \cup {e}
  /\ epc' = [epc EXCEPT ![e] = "call"]
  /\ UNCHANGED << input, outcome, result, disk, uploads, server, timer, packing, credits, seen,
                  debited, reply >>

\* The upstream call resolves: res.json with remainingCredits as
\* updateCredits resolved it.
EnhanceDone(e) ==
  /\ epc[e] = "call"
  /\ Send(e, Json(200, "", Val(debited[e]).value))
  /\ UNCHANGED << input, outcome, result, disk, uploads, server, timer, packing, credits, seen,
                  debited, usageLog, called >>

\* The upstream call rejects: the catch block answers 500.
EnhanceUpstreamFailed(e) ==
  /\ epc[e] = "call"
  /\ Send(e, Json(500, "Failed to enhance description. Please try again.", ""))
  /\ UNCHANGED << input, outcome, result, disk, uploads, server, timer, packing, credits, seen,
                  debited, usageLog, called >>

NextEnhance ==
  \E e \in Reqs :
    \/ EnhanceArrive(e)
    \/ EnhanceCheck(e)
    \/ EnhanceDebit(e)
    \/ EnhanceLog(e)
    \/ EnhanceDone(e)
    \/ EnhanceUpstreamFailed(e)

SpecEnhance == InitEnhance /\ [][NextEnhance]_vars

(***************************************************************************)
(* C18.  A request that finds the user's credits at 0 is answered 402 at   *)
(* once: it never reaches the debit, makes no upstream call and changes    *)
(* no balance.                                                             *)
(***************************************************************************)
C18_NoCreditsNoCall ==
  \A e \in Reqs :
    seen[e] = Some(0) =>
      /\ epc[e] = "done"
      /\ Val(reply[e]).status = 402
      /\ ~Val(reply[e]).success
      /\ e \notin called
      /\ IsNull(debited[e])
      /\ e \notin usageLog

\* A signed-in request with a description was made at 0 credits and
\* answered; the balance is still 0.
C18_Witness ==
  \E e \in Reqs :
    /\ seen[e] = Some(0)
    /\ Val(req[e]).description = "A site."
    /\ ~IsNull(reply[e])
    /\ credits = 0

(***************************************************************************)
(* C19.  A request makes the upstream call only after its credit check     *)
(* passed and its debit changed the balance; the balance never goes back   *)
(* up, also when the upstream call fails.                                  *)
(***************************************************************************)
C19_DebitBeforeCall ==
  /\ \A e \in called :
       /\ ~IsNull(seen[e]) /\ Val(seen[e]) >= 1
       /\ ~IsNull(debited[e])
  /\ \A e \in Reqs : ~IsNull(debited[e]) => credits <= Val(debited[e]).credits

\* The upstream call of a request failed after its debit, and the balance
\* is what the debit left.
C19_Witness ==
  \E e \in called :
    /\ ~IsNull(reply[e]) /\ Val(reply[e]).status = 500
    /\ ~IsNull(debited[e])
    /\ credits = Val(debited[e]).credits
    /\ credits = Val(seen[e]) - 1

(***************************************************************************)
(* C20.  remainingCredits of a successful response is the balance the      *)
(* request's debit left.                                                   *)
(***************************************************************************)
C20_RemainingIsBalance ==
  \A e \in Reqs :
    (~IsNull(reply[e]) /\ Val(reply[e]).status = 200) =>
      Val(reply[e]).remainingCredits = ToString(Val(debited[e]).credits)

(***************************************************************************)
(* C26.  The sitemap's entries are the parsed site links in order, each    *)
(* <loc> ending with a slash; no two entries have the same <loc>; exactly  *)
(* one entry, the homepage, has priority 1.0 and changefreq daily, and     *)
(* every other entry has priority 0.8 and changefreq weekly.               *)
(***************************************************************************)
C26_SitemapEntries ==
  Rendered(1) =>
    LET b == Bundle(1)
        entries == SitemapEntries(b.sitemapXml)
        homepages == {i \in 1..Len(entries) : entries[i].loc = b.websiteUrl \o "/"}
    IN  /\ Len(entries) = Len(b.siteLinks)
        /\ \A i \in 1..Len(entries) :
             /\ entries[i].loc = Slashed(b.siteLinks[i])
             /\ IF i \in homepages
                THEN entries[i].priority = "1.0" /\ entries[i].changefreq = "daily"
                ELSE entries[i].priority = "0.8" /\ entries[i].changefreq = "weekly"
        /\ \A i, j \in 1..Len(entries) : i # j => entries[i].loc # entries[j].loc
        /\ Cardinality(homepages) = 1

(***************************************************************************)
(* C23.  A file that cannot be written fails no request: a valid form      *)
(* whose image, if any, decodes is answered with the result page.          *)
(***************************************************************************)
C23_WriteFailureNotFatal ==
  (outcome[1] # "pending" /\ ~Invalid(input)
     /\ (IF IsNull(input.file) THEN TRUE ELSE Val(input.file).decodes))
    => outcome[1] = "rendered"

(***************************************************************************)
(* C25.  The catalog generateIcons returns lists exactly the sizes whose   *)
(* file was written, in the order of the size table, whichever sizes       *)
(* failed; a missing favicon.ico fails nothing; an image that does not     *)
(* decode ends the request with the error page.                            *)
(***************************************************************************)
\* The names of the size table whose file lies in the session's icons directory.
RasterizedNames(b) ==
  LET iconsDir == pathJoin(sessionDirOf(b.sessionId), "icons")
  IN  SelectSeq([i \in 1..Len(iconSizes) |-> iconSizes[i].name],
                LAMBDA name : pathJoin(iconsDir, name) \in DOMAIN disk)

C25_CatalogIsWhatRendered ==
  /\ (HasIcons(1)) =>
       [i \in 1..Len(Catalog(1).icons) |-> Catalog(1).icons[i].name]
         = RasterizedNames(Bundle(1))
  /\ (outcome[1] # "pending" /\ ~Invalid(input) /\ ~IsNull(input.file)
        /\ ~Val(input.file).decodes) => outcome[1] = "error"

\* Two sizes and favicon.ico failed: the result page is rendered, the catalog
\* lists the eight other sizes, those after the failed ones included.
C25_Witness ==
  /\ HasIcons(1)
  /\ Len(Catalog(1).icons) = Len(iconSizes) - 2
  /\ pathJoin(pathJoin(sessionDirOf(Bundle(1).sessionId), "icons"), "favicon.ico")
       \notin DOMAIN disk
  /\ \E i \in 1..Len(Catalog(1).icons) :
       Catalog(1).icons[i].name = "android-chrome-512x512.png"

(***************************************************************************)
(* C28.  However the requests of one user interleave, the stored credits   *)
(* never fall below 0 and no more upstream calls are made than debits      *)
(* changed the balance.                                                    *)
(***************************************************************************)
\* The requests whose updateCredits changed the row.
Debited == {e \in Reqs : ~IsNull(debited[e])}

C28_NoOverdraft ==
  /\ credits >= 0
  /\ Cardinality(called) <= Cardinality(Debited)
  /\ called \subseteq Debited

\* Two requests both found 1 credit; one was debited and made the upstream
\* call, the other was answered 402 by the handler, and the balance is 0.
C28_Witness ==
  \E e \in Reqs, o \in Reqs :
    /\ e # o
    /\ seen[e] = Some(1) /\ seen[o] = Some(1)
    /\ e \in called
    /\ o \notin called /\ ~IsNull(reply[o]) /\ Val(reply[o]).status = 402
    /\ credits = 0

(***************************************************************************)
(* C24.  Every session directory that can be removed and was last modified *)
(* more than two hours ago is eventually removed, whatever else lies in    *)
(* generated/sessions.                                                     *)
(***************************************************************************)
C24_EventuallyReclaimed ==
  \A d \in OldSessions :
    (d \in dirs /\ d \notin locked /\ clock - mtime[d] > TwoHours) ~> (d \notin dirs)

(***************************************************************************)
(* POST /download: download requests in flight together, beside the        *)
(* cleanup sweep.  Each action is the code from one await, or one stream   *)
(* event, to the next.                                                     *)
(***************************************************************************)
\* The session directories on disk: SessionS was last modified more than two
\* hours ago, SessionT within the hour.  SessionGone has no directory.
SessionS == "123e4567e89b42d3"
SessionT == "9f1c2a705b3d4e8a"
SessionGone == "0f0e0d0c0b0a0908"

\* new Date().toISOString() at the moments zip filenames are made.
Instants == { "2024-01-01T12:00:00.123Z", "2024-01-01T12:00:00.124Z" }

\* The first occurrence of a character replaced: String.replace with a string pattern.
ReplaceFirst(s, old, new) ==
  LET at == SepPositions(s, old)
  IN  IF at = {} THEN s
      ELSE SubSeq(s, 1, Min(at) - 1) \o new \o SubSeq(s, Min(at) + 1, Len(s))

\* generateZipFilename(), the clock reading now.
generateZipFilename(now) ==
  "seo-assets-"
    \o Split(ReplaceFirst(ReplaceAll(ReplaceAll(now, ":", "-"), ".", "-"), "T", "_"), ".")[1]
    \o ".zip"

\* iconData as generateIcons returned it for a session, with one icon.
IconDataOf(sessionId) ==
  [sessionDir |-> Some(sessionDirOf(sessionId)), icons |-> << [name |-> "favicon-32x32.png"] >>]

\* req.body.seoData, and whether reading a queued file fails while the
\* archive is written.
DownloadCases ==
  { [seoData |-> Null, fault |-> "none"],
    [seoData |-> Some([sessionId |-> SessionS, htmlHead |-> "<title>S</title>",
                       iconData |-> Some(IconDataOf(SessionS))]), fault |-> "none"],
    [seoData |-> Some([sessionId |-> SessionS, htmlHead |-> "<title>S</title>",
                       iconData |-> Some(IconDataOf(SessionS))]), fault |-> "archive"],
    [seoData |-> Some([sessionId |-> SessionGone, htmlHead |-> "<title>G</title>",
                       iconData |-> Null]), fault |-> "none"],
    [seoData |-> Some([sessionId |-> SessionS, htmlHead |-> "<title>S</title>",
                       iconData |-> Some(IconDataOf(SessionT))]), fault |-> "none"] }

\* addIconFiles(archive, iconData): the files queued for the archive, each
\* with the path it is read from.
addIconFiles(iconData, files) ==
  LET iconPath(icon) ==
        IF ~IsNull(iconData.sessionDir)
        THEN pathJoin(pathJoin(Val(iconData.sessionDir), "icons"), icon.name)
        ELSE pathJoin(pathJoin("generated", "icons"), icon.name)
  IN  { [name |-> "icons/" \o iconData.icons[i].name,
         from |-> iconPath(iconData.icons[i]),
         content |-> files[iconPath(iconData.icons[i])]] :
          i \in {k \in 1..Len(iconData.icons) : iconPath(iconData.icons[k]) \in DOMAIN files} }

\* addFilesToArchive(archive, seoData): the entries of the archive.
addFilesToArchive(seoData, files) ==
  [appended |-> {"html/complete.html", "README.md", "IMPLEMENTATION-GUIDE.md"}
                 \cup (IF IsNull(seoData.iconData) THEN {} ELSE {"icons/ICONS-GUIDE.txt"}),
   htmlHead |-> seoData.htmlHead,
   files |-> IF IsNull(seoData.iconData) THEN {}
             ELSE addIconFiles(Val(seoData.iconData), files)]

\* An archive the stream stopped writing part-way.
Truncated == [appended |-> {}, htmlHead |-> "", files |-> {}]

InitDownload ==
  /\ input = << >> /\ outcome = << >> /\ result = << >> /\ uploads = {}
  /\ pc = << >> /\ issued = {} /\ session = << >> /\ iconDataOf = << >>
  /\ BillingIdle
  /\ req = [d \in Reqs |-> Null]
  /\ fault = [d \in Reqs |-> "none"]
  /\ dirs = sessionDirs(SessionS) \cup sessionDirs(SessionT)
  /\ disk = [p \in { pathJoin(pathJoin(sessionDirOf(s), "icons"), "favicon-32x32.png") :
                       s \in {SessionS, SessionT} } |-> "raster as " \o p]
  /\ clock = MaxHour - 1
  /\ mtime = (sessionDirOf(SessionS) :> 0) @@ (sessionDirOf(SessionT) :> MaxHour - 1)
  /\ locked = {}
  /\ sweep = SweepIdle
  /\ dpc = [d \in Reqs |-> "idle"]
  /\ zip = [d \in Reqs |-> Null]
  /\ sent = [d \in Reqs |-> Null]

\* The process is running: no 'error' event went unhandled.
Alive == \A d \in Reqs : dpc[d] # "exited"

\* The session directory request d names.
DownloadDir(d) == sessionDirOf(Val(Val(req[d]).seoData).sessionId)

\* res.status(status).json({ error }): the request is answered.
Answer(d, status) ==
  /\ sent' = [sent EXCEPT ![d] = Some([status |-> status, archive |-> Null, complete |-> TRUE])]
  /\ dpc' = [dpc EXCEPT ![d] = "done"]

\* An 'error' event with no listener: the exception is uncaught, the process exits.
Exit == dpc' = [d \in Reqs |-> "exited"]

\* The request arrives: 400 without seoData.sessionId, else fs.access is awaited.
DownloadArrive(d) ==
  /\ Alive
  /\ dpc[d] = "idle"
  /\ \E case \in DownloadCases :
       /\ req' = [req EXCEPT ![d] = Some(case)]
       /\ fault' = [fault EXCEPT ![d] = case.fault]
       /\ IF IsNull(case.seoData) \/ Val(case.seoData).sessionId = ""
          THEN Answer(d, 400)
          ELSE dpc' = [dpc EXCEPT ![d] = "access"] /\ sent' = sent
  /\ UNCHANGED << input, outcome, result, disk, uploads, pc, issued, session, dirs,
                  iconDataOf, timer, billing, zip >>

\* A handler that does not look whether the session directory exists.
DownloadAccess_NoCheck(d) ==
  /\ Alive
  /\ dpc[d] = "access"
  /\ \E now \in Instants :
       zip' = [zip EXCEPT ![d] =
                 Some(pathJoin(pathJoin(DownloadDir(d), "temp"), generateZipFilename(now)))]
  /\ dpc' = [dpc EXCEPT ![d] = "zip"]
  /\ UNCHANGED << input, outcome, result, disk, uploads, server, timer, billing, sent >>

\* fs.access(sessionDir) settles: 404 when it rejects; else zipPath is made
\* and createAssetsZip opens the output stream and queues the entries.
DownloadAccess(d) ==
  /\ Alive
  /\ dpc[d] = "access"
  /\ IF DownloadDir(d) \notin dirs
     THEN Answer(d, 404) /\ zip' = zip
     ELSE /\ \E now \in Instants :
               zip' = [zip EXCEPT ![d] =
                         Some(pathJoin(pathJoin(DownloadDir(d), "temp"), generateZipFilename(now)))]
          /\ dpc' = [dpc EXCEPT ![d] = "zip"]
          /\ sent' = sent
  /\ UNCHANGED << input, outcome, result, disk, uploads, server, timer, billing >>

\* The output stream emits 'close' after the whole archive: createAssetsZip
\* resolves, the headers are set and createReadStream(zipPath) is piped.
DownloadZipped(d) ==
  /\ Alive
  /\ dpc[d] = "zip"
  /\ fault[d] = "none"
  /\ pathJoin(DownloadDir(d), "temp") \in dirs
  /\ disk' = Overwrite(disk, Val(zip[d]) :> addFilesToArchive(Val(Val(req[d]).seoData), disk))
  /\ dpc' = [dpc EXCEPT ![d] = "open"]
  /\ UNCHANGED << input, outcome, result, uploads, server, timer, billing, zip, sent >>

\* The archive emits 'error': createAssetsZip rejects, the catch answers 500.
\* What the output stream had written stays at zipPath.
DownloadZipFailed(d) ==
  /\ Alive
  /\ dpc[d] = "zip"
  /\ fault[d] = "archive"
  /\ pathJoin(DownloadDir(d), "temp") \in dirs
  /\ disk' = Overwrite(disk, Val(zip[d]) :> Truncated)
  /\ Answer(d, 500)
  /\ UNCHANGED << input, outcome, result, uploads, server, timer, billing, zip >>

\* The output stream cannot be opened, temp/ is gone: it emits 'error', for
\* which createAssetsZip has no listener.  Either the stream's 'close'
\* follows and the promise resolves with nothing written, or the event
\* goes unhandled and the process exits; the promise never rejects.
DownloadOutputFailed(d) ==
  /\ Alive
  /\ dpc[d] = "zip"
  /\ pathJoin(DownloadDir(d), "temp") \notin dirs
  /\ \/ dpc' = [dpc EXCEPT ![d] = "open"]
     \/ Exit
  /\ UNCHANGED << input, outcome, result, disk, uploads, server, timer, billing, zip, sent >>

\* The read stream opens zipPath and starts to flow into the response.
DownloadOpen(d) ==
  /\ Alive
  /\ dpc[d] = "open"
  /\ Val(zip[d]) \in DOMAIN disk
  /\ sent' = [sent EXCEPT ![d] =
                Some([status |-> 200, archive |-> Some(disk[Val(zip[d])]), complete |-> FALSE])]
  /\ dpc' = [dpc EXCEPT ![d] = "stream"]
  /\ UNCHANGED << input, outcome, result, disk, uploads, server, timer, billing, zip >>

\* The read stream cannot open zipPath: its 'error' event has no listener.
DownloadOpenFailed(d) ==
  /\ Alive
  /\ dpc[d] = "open"
  /\ Val(zip[d]) \notin DOMAIN disk
  /\ Exit
  /\ UNCHANGED << input, outcome, result, disk, uploads, server, timer, billing, zip, sent >>

\* The read stream emits 'end': the response is complete and zipPath is
\* unlinked (an error of unlink is logged).
DownloadEnd(d) ==
  /\ Alive
  /\ dpc[d] = "stream"
  /\ sent' = [sent EXCEPT ![d] = Some([Val(sent[d]) EXCEPT !.complete = TRUE])]
  /\ disk' = [p \in DOMAIN disk \ {Val(zip[d])} |-> disk[p]]
  /\ dpc' = [dpc EXCEPT ![d] = "done"]
  /\ UNCHANGED << input, outcome, result, uploads, server, timer, billing, zip >>

\* The client disconnects while the archive flows: the pipe stops reading,
\* 'end' is never emitted.
DownloadAborted(d) ==
  /\ Alive
  /\ dpc[d] = "stream"
  /\ dpc' = [dpc EXCEPT ![d] = "done"]
  /\ UNCHANGED << input, outcome, result, disk, uploads, server, timer, billing, zip, sent >>

\* cleanupOldSessions comes to session directory s and finds it expired:
\* fs.rmdir(sessionPath, { recursive: true }).
SweepReclaims(s) ==
  /\ Alive
  /\ s \in dirs
  /\ Expired(Stat(s), clock - TwoHours)
  /\ dirs' = {e \in dirs : ~Under(e, s)}
  /\ disk' = [p \in {q \in DOMAIN disk : ~Under(q, s)} |-> disk[p]]
  /\ UNCHANGED << input, outcome, result, uploads, pc, req, issued, session,
                  iconDataOf, fault, timer, billing, packing >>

NextDownload ==
  \/ \E d \in Reqs :
       \/ DownloadArrive(d)
       \/ DownloadAccess(d)
       \/ DownloadZipped(d)
       \/ DownloadZipFailed(d)
       \/ DownloadOutputFailed(d)
       \/ DownloadOpen(d)
       \/ DownloadOpenFailed(d)
       \/ DownloadEnd(d)
       \/ DownloadAborted(d)
  \/ \E s \in {sessionDirOf(SessionS), sessionDirOf(SessionT)} : SweepReclaims(s)

SpecDownload == InitDownload /\ [][NextDownload]_vars

(***************************************************************************)
(* C21.  A download that finds no directory for its session is answered    *)
(* 404 at that step: no zipPath is made and nothing is written.            *)
(***************************************************************************)
C21_MissingSessionNotFound ==
  [][\A d \in Reqs :
       (dpc[d] = "access" /\ dpc'[d] \notin {"access", "exited"}
          /\ DownloadDir(d) \notin dirs) =>
         /\ dpc'[d] = "done"
         /\ Val(sent'[d]).status = 404
         /\ IsNull(zip'[d])
         /\ disk' = disk]_vars

\* A download of the session the sweep had removed, and one of a session
\* that never had a directory, were answered 404.
C21_Witness ==
  /\ sessionDirOf(SessionS) \notin dirs
  /\ \E d \in Reqs :
       /\ ~IsNull(sent[d]) /\ Val(sent[d]).status = 404
       /\ Val(Val(req[d]).seoData).sessionId = SessionS
       /\ IsNull(zip[d])
  /\ \E d \in Reqs :
       /\ ~IsNull(sent[d]) /\ Val(sent[d]).status = 404
       /\ Val(Val(req[d]).seoData).sessionId = SessionGone

(***************************************************************************)
(* C22.  createAssetsZip resolves only with the whole archive at zipPath,  *)
(* and when the output stream fails it rejects: the download is answered   *)
(* 500.                                                                    *)
(***************************************************************************)
C22_ResolvesWrittenOrRejects ==
  [][\A d \in Reqs :
       dpc[d] = "zip" =>
         /\ dpc'[d] = "open" =>
              /\ Val(zip[d]) \in DOMAIN disk'
              /\ disk'[Val(zip[d])] = addFilesToArchive(Val(Val(req[d]).seoData), disk)
         /\ (pathJoin(DownloadDir(d), "temp") \notin dirs /\ dpc'[d] # "zip") =>
              dpc'[d] = "done" /\ Val(sent'[d]).status = 500]_vars

(***************************************************************************)
(* C27.  Once a download is over, and no other download still uses the     *)
(* same zipPath, no file is left at its zipPath.                           *)
(***************************************************************************)
C27_TempArchiveRemoved ==
  \A d \in Reqs :
    (dpc[d] = "done" /\ ~IsNull(zip[d])
       /\ \A o \in Reqs : zip[o] = zip[d] => dpc[o] = "done")
      => Val(zip[d]) \notin DOMAIN disk

(***************************************************************************)
(* C29.  Every icon file in the archive sent for session S was read from   *)
(* generated/sessions/S/icons.                                             *)
(***************************************************************************)
C29_IconsFromOwnSession ==
  \A d \in Reqs :
    (~IsNull(sent[d]) /\ Val(sent[d]).status = 200) =>
      \A file \in Val(Val(sent[d]).archive).files :
        Under(file.from, pathJoin(DownloadDir(d), "icons"))

(***************************************************************************)
(* C30.  However downloads and the sweep interleave, the process keeps     *)
(* running, a download whose files can be read is answered 200, 400 or     *)
(* 404, never 500, and no two downloads have the same zipPath.             *)
(***************************************************************************)
C30_CompleteOrExpired ==
  /\ Alive
  /\ \A d \in Reqs :
       (fault[d] = "none" /\ ~IsNull(sent[d])) => Val(sent[d]).status \in {200, 400, 404}
  /\ \A d \in Reqs, o \in Reqs : (d # o /\ ~IsNull(zip[d])) => zip[d] # zip[o]

=============================================================================
